---- MODULE Spec2Model ----
(***************************************************************************)
(* Model of scripts/semantic-compressor.py: the SemanticCompressor engine  *)
(* (strategies, pipeline, result cache) and the command-line driver main() *)
(* with its SIGALRM wall-clock deadline.                                   *)
(*                                                                         *)
(* Text is a sequence of one-character strings.  The operators below are   *)
(* the regular-expression and str operations of the source, written out    *)
(* for the characters that can occur in the modelled inputs and in the     *)
(* text the strategies themselves generate ("[REF_1]: ").                  *)
(***************************************************************************)
EXTENDS Integers, Sequences, FiniteSets, TLC

(***************************************************************************)
(* Characters and the str / re primitives used by the source               *)
(***************************************************************************)
UpperChars == <<"A","B","C","D","E","F","G","H","I","J","K","L","M",
                "N","O","P","Q","R","S","T","U","V","W","X","Y","Z">>
LowerChars == <<"a","b","c","d","e","f","g","h","i","j","k","l","m",
                "n","o","p","q","r","s","t","u","v","w","x","y","z">>
DigitChars == <<"0","1","2","3","4","5","6","7","8","9">>

IsUpper(c) == \E i \in 1..26 : UpperChars[i] = c
IsLower(c) == \E i \in 1..26 : LowerChars[i] = c
IsDigit(c) == \E i \in 1..10 : DigitChars[i] = c
\* regex \w
IsWord(c) == IsUpper(c) \/ IsLower(c) \/ IsDigit(c) \/ c = "_"
\* regex \s and str.strip() whitespace
IsSpace(c) == c \in {" ", "\t", "\n", "\r", "\f"}

\* str.lower() on one character
LowerChar(c) == IF IsUpper(c)
                THEN LowerChars[CHOOSE i \in 1..26 : UpperChars[i] = c]
                ELSE c
\* str.lower()
Lower(s) == [i \in 1..Len(s) |-> LowerChar(s[i])]

Drop(s, n) == SubSeq(s, n + 1, Len(s))
Take(s, n) == SubSeq(s, 1, n)

\* does the literal pat occur in s at index i
MatchAt(s, i, pat) ==
    /\ i >= 1
    /\ i + Len(pat) - 1 <= Len(s)
    /\ \A k \in 1..Len(pat) : s[i + k - 1] = pat[k]

\* str.find: index of the first occurrence of pat in s, 0 when absent
FindFirst(s, pat) ==
    IF \E i \in 1..(Len(s) + 1) : MatchAt(s, i, pat)
    THEN CHOOSE i \in 1..(Len(s) + 1) :
            /\ MatchAt(s, i, pat)
            /\ \A j \in 1..(i - 1) : ~MatchAt(s, j, pat)
    ELSE 0

\* str.replace(pat, repl, 1)
ReplaceFirst(s, pat, repl) ==
    LET i == FindFirst(s, pat)
    IN  IF i = 0 THEN s
        ELSE Take(s, i - 1) \o repl \o Drop(s, i + Len(pat) - 1)

\* index of the first "\n" of s, 0 when absent
FirstNewline(s) ==
    IF \E i \in 1..Len(s) : s[i] = "\n"
    THEN CHOOSE i \in 1..Len(s) : s[i] = "\n" /\ \A j \in 1..(i - 1) : s[j] # "\n"
    ELSE 0

\* str.split('\n')
RECURSIVE SplitLines(_)
SplitLines(s) ==
    LET i == FirstNewline(s)
    IN  IF i = 0 THEN <<s>>
        ELSE <<Take(s, i - 1)>> \o SplitLines(Drop(s, i))

\* sep.join(parts)
RECURSIVE Join(_, _)
Join(parts, sep) ==
    IF parts = <<>> THEN <<>>
    ELSE IF Len(parts) = 1 THEN parts[1]
    ELSE parts[1] \o sep \o Join(Tail(parts), sep)

\* str.rstrip()
RECURSIVE RStrip(_)
RStrip(s) ==
    IF s # <<>> /\ IsSpace(s[Len(s)]) THEN RStrip(Take(s, Len(s) - 1)) ELSE s

\* str.lstrip()
RECURSIVE LStrip(_)
LStrip(s) ==
    IF s # <<>> /\ IsSpace(s[1]) THEN LStrip(Tail(s)) ELSE s

\* str.strip()
Strip(s) == LStrip(RStrip(s))

\* last index e >= i such that s[i..e] is all whitespace (s[i] is whitespace)
RECURSIVE WsRunEnd(_, _)
WsRunEnd(s, i) ==
    IF i < Len(s) /\ IsSpace(s[i + 1]) THEN WsRunEnd(s, i + 1) ELSE i

\* last index e >= i such that s[i..e] is all \w (s[i] is \w)
RECURSIVE WordRunEnd(_, _)
WordRunEnd(s, i) ==
    IF i < Len(s) /\ IsWord(s[i + 1]) THEN WordRunEnd(s, i + 1) ELSE i

NewlinesIn(s, i, e) == Cardinality({k \in i..e : s[k] = "\n"})

LastNewlineIn(s, i, e) ==
    CHOOSE k \in i..e : s[k] = "\n" /\ \A m \in (k + 1)..e : s[m] # "\n"

\* re.sub(r'\n\s*\n\s*\n+', repl, s): in every whitespace run holding three or
\* more newlines, the part from its first to its last newline becomes repl
RECURSIVE SubBlankLines(_, _, _)
SubBlankLines(s, i, repl) ==
    IF i > Len(s) THEN <<>>
    ELSE IF s[i] = "\n" /\ NewlinesIn(s, i, WsRunEnd(s, i)) >= 3
         THEN repl \o SubBlankLines(s, LastNewlineIn(s, i, WsRunEnd(s, i)) + 1, repl)
         ELSE <<s[i]>> \o SubBlankLines(s, i + 1, repl)

(***************************************************************************)
(* whitespace_optimization                                                 *)
(***************************************************************************)
\* re.sub(r'\r\n|\r', '\n', content)
RECURSIVE NormalizeLineEndings(_)
NormalizeLineEndings(s) ==
    IF s = <<>> THEN <<>>
    ELSE IF s[1] = "\r"
         THEN <<"\n">> \o NormalizeLineEndings(
                  IF Len(s) >= 2 /\ s[2] = "\n" THEN Drop(s, 2) ELSE Tail(s))
         ELSE <<s[1]>> \o NormalizeLineEndings(Tail(s))

\* '\n'.join(line.rstrip() for line in content.split('\n'))
RStripLines(s) ==
    LET lines == SplitLines(s)
    IN  Join([k \in 1..Len(lines) |-> RStrip(lines[k])], <<"\n">>)

\* the backtick character (it cannot be written inside a TLA+ string)
Backtick == "BACKTICK"
Fence == <<Backtick, Backtick, Backtick>>
CodePlaceholder ==
    <<"<","<","<","C","O","D","E","_","B","L","O","C","K",">",">",">">>

FirstBacktickFrom(s, i) ==
    IF \E j \in i..Len(s) : s[j] = Backtick
    THEN CHOOSE j \in i..Len(s) : s[j] = Backtick /\ \A m \in i..(j - 1) : s[m] # Backtick
    ELSE 0

\* end index of a match of the fenced-code pattern (fence, non-backticks, fence)
\* starting at i, 0 when there is none
CodeBlockEnd(s, i) ==
    IF ~MatchAt(s, i, Fence) THEN 0
    ELSE LET j == FirstBacktickFrom(s, i + 3)
         IN  IF j # 0 /\ MatchAt(s, j, Fence) THEN j + 2 ELSE 0

\* re.finditer(code_pattern, content): the matched blocks, left to right
RECURSIVE CodeBlocks(_, _)
CodeBlocks(s, i) ==
    IF i > Len(s) THEN <<>>
    ELSE IF CodeBlockEnd(s, i) # 0
         THEN <<SubSeq(s, i, CodeBlockEnd(s, i))>> \o CodeBlocks(s, CodeBlockEnd(s, i) + 1)
         ELSE CodeBlocks(s, i + 1)

\* re.sub(code_pattern, placeholder, content)
RECURSIVE SubCodeBlocks(_, _)
SubCodeBlocks(s, i) ==
    IF i > Len(s) THEN <<>>
    ELSE IF CodeBlockEnd(s, i) # 0
         THEN CodePlaceholder \o SubCodeBlocks(s, CodeBlockEnd(s, i) + 1)
         ELSE <<s[i]>> \o SubCodeBlocks(s, i + 1)

IsBlank(c) == c = " " \/ c = "\t"

\* re.sub(r'[ \t]+', ' ', s)
RECURSIVE NormalizeSpaces(_)
NormalizeSpaces(s) ==
    IF s = <<>> THEN <<>>
    ELSE IF IsBlank(s[1])
         THEN IF Len(s) >= 2 /\ IsBlank(s[2])
              THEN NormalizeSpaces(Tail(s))
              ELSE <<" ">> \o NormalizeSpaces(Tail(s))
         ELSE <<s[1]>> \o NormalizeSpaces(Tail(s))

\* for block in preserved_blocks: content.replace(placeholder, block, 1)
RECURSIVE RestoreBlocks(_, _)
RestoreBlocks(s, blocks) ==
    IF blocks = <<>> THEN s
    ELSE RestoreBlocks(ReplaceFirst(s, CodePlaceholder, blocks[1]), Tail(blocks))

\* the content compress_whitespace returns
WhitespaceOptimized(content) ==
    LET c1 == NormalizeLineEndings(content)
        c2 == SubBlankLines(c1, 1, <<"\n", "\n">>)
        c3 == RStripLines(c2)
        blocks == CodeBlocks(c3, 1)
        noCode == NormalizeSpaces(SubCodeBlocks(c3, 1))
    IN  RestoreBlocks(noCode, blocks)

(***************************************************************************)
(* redundancy_elimination                                                  *)
(***************************************************************************)
\* str(n) for n >= 0
RECURSIVE Decimal(_)
Decimal(n) ==
    IF n < 10 THEN <<DigitChars[n + 1]>>
    ELSE Decimal(n \div 10) \o <<DigitChars[(n % 10) + 1]>>

\* f"[REF_{ref_counter}]"
RefTag(n) == <<"[", "R", "E", "F", "_">> \o Decimal(n) \o <<"]">>

\* line_frequency[clean]: how many lines strip to clean
LineFrequency(lines, clean) ==
    Cardinality({k \in 1..Len(lines) : Strip(lines[k]) = clean})

\* ' ' * n
Spaces(n) == [k \in 1..n |-> " "]

RefIndex(refs, clean) == CHOOSE r \in 1..Len(refs) : refs[r] = clean

\* the loop over lines that fills processed_lines; refs holds the keys of
\* line_refs in insertion order, so ref_counter = Len(refs) + 1
RECURSIVE ReplaceRepeatedLines(_, _, _)
ReplaceRepeatedLines(lines, k, refs) ==
    IF k > Len(lines) THEN <<>>
    ELSE LET line  == lines[k]
             clean == Strip(line)
         IN  IF clean # <<>> /\ LineFrequency(lines, clean) > 2
             THEN IF ~(\E r \in 1..Len(refs) : refs[r] = clean)
                  THEN <<RefTag(Len(refs) + 1) \o <<":", " ">> \o line>>
                       \o ReplaceRepeatedLines(lines, k + 1, Append(refs, clean))
                  ELSE <<Spaces(Len(line) - Len(LStrip(line)))
                         \o RefTag(RefIndex(refs, clean))>>
                       \o ReplaceRepeatedLines(lines, k + 1, refs)
             ELSE <<line>> \o ReplaceRepeatedLines(lines, k + 1, refs)

\* re.sub(r'(\s+)(\s+)+', group 1, s): a whitespace run of two or more
\* characters loses its last character
RECURSIVE SubSpaceRuns(_, _)
SubSpaceRuns(s, i) ==
    IF i > Len(s) THEN <<>>
    ELSE IF IsSpace(s[i]) /\ WsRunEnd(s, i) > i
         THEN SubSeq(s, i, WsRunEnd(s, i) - 1) \o SubSpaceRuns(s, WsRunEnd(s, i) + 1)
         ELSE <<s[i]>> \o SubSpaceRuns(s, i + 1)

\* end of \s+ at i, 0 when s[i] is not whitespace
SpacesEnd(s, i) == IF i <= Len(s) /\ IsSpace(s[i]) THEN WsRunEnd(s, i) ELSE 0
\* end of \w+ at i, 0 when s[i] is not a word character
WordEnd(s, i) == IF i <= Len(s) /\ IsWord(s[i]) THEN WordRunEnd(s, i) ELSE 0

\* end of one match of The\s+same\s+\w+\s+ at i, 0 when there is none
SamePhraseEnd(s, i) ==
    IF ~MatchAt(s, i, <<"T", "h", "e">>) THEN 0
    ELSE LET a == SpacesEnd(s, i + 3)
         IN  IF a = 0 \/ ~MatchAt(s, a + 1, <<"s", "a", "m", "e">>) THEN 0
             ELSE LET b == SpacesEnd(s, a + 5)
                  IN  IF b = 0 THEN 0
                      ELSE LET w == WordEnd(s, b + 1)
                           IN  IF w = 0 THEN 0 ELSE SpacesEnd(s, w + 1)

\* start of the last unit of the longest chain of SamePhrase units from i
RECURSIVE LastSamePhrase(_, _)
LastSamePhrase(s, i) ==
    LET e == SamePhraseEnd(s, i)
    IN  IF SamePhraseEnd(s, e + 1) # 0 THEN LastSamePhrase(s, e + 1) ELSE i

\* re.sub(r'(The\s+same\s+\w+\s+){2,}', group 1, s)
RECURSIVE SubSamePhrases(_, _)
SubSamePhrases(s, i) ==
    IF i > Len(s) THEN <<>>
    ELSE IF SamePhraseEnd(s, i) # 0 /\ SamePhraseEnd(s, SamePhraseEnd(s, i) + 1) # 0
         THEN LET l == LastSamePhrase(s, i)
              IN  SubSeq(s, l, SamePhraseEnd(s, l))
                  \o SubSamePhrases(s, SamePhraseEnd(s, l) + 1)
         ELSE <<s[i]>> \o SubSamePhrases(s, i + 1)

\* end of one match of \w+\s+ at i, 0 when there is none
WordSpaceEnd(s, i) ==
    IF WordEnd(s, i) = 0 THEN 0 ELSE SpacesEnd(s, WordEnd(s, i) + 1)

\* starts of the consecutive \w+\s+ units from i, in order
RECURSIVE WordSpaceChain(_, _)
WordSpaceChain(s, i) ==
    IF WordSpaceEnd(s, i) = 0 THEN <<>>
    ELSE <<i>> \o WordSpaceChain(s, WordSpaceEnd(s, i) + 1)

\* (\w+\s+){3,}\1 at i: the start of the unit that ends the match, 0 when
\* there is no match; the greedy repetition keeps the largest number of
\* units whose last unit is followed by a copy of itself
WordRepeatUnit(s, i) ==
    LET chain == WordSpaceChain(s, i)
        ok(k) == MatchAt(s, WordSpaceEnd(s, chain[k]) + 1,
                         SubSeq(s, chain[k], WordSpaceEnd(s, chain[k])))
    IN  IF \E k \in 3..Len(chain) : ok(k)
        THEN chain[CHOOSE k \in 3..Len(chain) :
                      ok(k) /\ \A m \in (k + 1)..Len(chain) : ~ok(m)]
        ELSE 0

\* re.sub(r'(\w+\s+){3,}\1', group 1, s)
RECURSIVE SubWordRepeats(_, _)
SubWordRepeats(s, i) ==
    IF i > Len(s) THEN <<>>
    ELSE IF WordRepeatUnit(s, i) # 0
         THEN LET u == WordRepeatUnit(s, i)
                  e == WordSpaceEnd(s, u)
              IN  SubSeq(s, u, e) \o SubWordRepeats(s, e + (e - u + 1) + 1)
         ELSE <<s[i]>> \o SubWordRepeats(s, i + 1)

\* end of a match of (fenced block)\s*\1 at i, 0 when there is none
DuplicateBlockEnd(s, i) ==
    LET e == CodeBlockEnd(s, i)
    IN  IF e = 0 THEN 0
        ELSE LET t == IF SpacesEnd(s, e + 1) = 0 THEN e ELSE SpacesEnd(s, e + 1)
             IN  IF MatchAt(s, t + 1, SubSeq(s, i, e)) THEN t + (e - i + 1) ELSE 0

\* re.sub of the duplicate-code-block pattern, keeping group 1
RECURSIVE SubDuplicateBlocks(_, _)
SubDuplicateBlocks(s, i) ==
    IF i > Len(s) THEN <<>>
    ELSE IF DuplicateBlockEnd(s, i) # 0
         THEN SubSeq(s, i, CodeBlockEnd(s, i))
              \o SubDuplicateBlocks(s, DuplicateBlockEnd(s, i) + 1)
         ELSE <<s[i]>> \o SubDuplicateBlocks(s, i + 1)

\* for pattern in self.redundant_patterns: content = re.sub(pattern, ...)
\* the first pattern has no group, so its matches are replaced by ''
SubRedundantPatterns(s) ==
    LET p1 == SubBlankLines(s, 1, <<>>)
        p2 == SubSpaceRuns(p1, 1)
        p3 == SubSamePhrases(p2, 1)
        p4 == SubWordRepeats(p3, 1)
    IN  SubDuplicateBlocks(p4, 1)

\* the content eliminate_redundancy returns
RedundancyEliminated(content) ==
    SubRedundantPatterns(
        Join(ReplaceRepeatedLines(SplitLines(content), 1, <<>>), <<"\n">>))

(***************************************************************************)
(* Exact arithmetic for the preservation factors (float values in source)  *)
(***************************************************************************)
RECURSIVE GCD(_, _)
GCD(a, b) == IF b = 0 THEN a ELSE GCD(b, a % b)

\* the fraction n/d (n >= 0, d > 0) in lowest terms
Rat(n, d) == <<n \div GCD(n, d), d \div GCD(n, d)>>
RatMul(x, y) == Rat(x[1] * y[1], x[2] * y[2])
\* a/b <= c/d for a, c >= 0 and b, d > 0, compared by integer parts and then
\* by the reciprocals of the fractional parts, so that no product is formed
RECURSIVE FracLE(_, _, _, _)
FracLE(a, b, c, d) ==
    IF a \div b # c \div d THEN a \div b < c \div d
    ELSE IF a % b = 0 THEN TRUE
    ELSE IF c % d = 0 THEN FALSE
    ELSE FracLE(d, c % d, b, a % b)
RatLE(x, y) ==
    IF x[1] < 0 /\ y[1] < 0 THEN FracLE(-y[1], y[2], -x[1], x[2])
    ELSE IF x[1] < 0 THEN TRUE
    ELSE IF y[1] < 0 THEN FALSE
    ELSE FracLE(x[1], x[2], y[1], y[2])
RatLT(x, y) == ~RatLE(y, x)
RatMin(x, y) == IF RatLE(x, y) THEN x ELSE y
RatMax(x, y) == IF RatLE(x, y) THEN y ELSE x
One == Rat(1, 1)
Zero == Rat(0, 1)

(***************************************************************************)
(* semantic_condensation                                                   *)
(***************************************************************************)
\* (alternatives, replacement) rows of condensation_patterns, in order
condensation_patterns == <<
    <<<<<<"i","n"," ","o","r","d","e","r"," ","t","o">>,
        <<"s","o"," ","a","s"," ","t","o">>>>,
      <<"t","o">>>>,
    <<<<<<"d","u","e"," ","t","o"," ","t","h","e"," ","f","a","c","t"," ","t","h","a","t">>,
        <<"b","e","c","a","u","s","e"," ","o","f"," ","t","h","e"," ","f","a","c","t"," ","t","h","a","t">>>>,
      <<"b","e","c","a","u","s","e">>>>,
    <<<<<<"a","t"," ","t","h","i","s"," ","p","o","i","n","t"," ","i","n"," ","t","i","m","e">>,
        <<"a","t"," ","t","h","e"," ","p","r","e","s","e","n","t"," ","t","i","m","e">>>>,
      <<"n","o","w">>>>,
    <<<<<<"f","o","r"," ","t","h","e"," ","p","u","r","p","o","s","e"," ","o","f">>>>,
      <<"f","o","r">>>>,
    <<<<<<"w","i","t","h"," ","r","e","g","a","r","d"," ","t","o">>,
        <<"w","i","t","h"," ","r","e","s","p","e","c","t"," ","t","o">>,
        <<"i","n"," ","r","e","l","a","t","i","o","n"," ","t","o">>>>,
      <<"r","e","g","a","r","d","i","n","g">>>>,
    <<<<<<"i","t"," ","s","h","o","u","l","d"," ","b","e"," ","n","o","t","e","d"," ","t","h","a","t">>,
        <<"i","t"," ","i","s"," ","i","m","p","o","r","t","a","n","t"," ","t","o"," ","n","o","t","e"," ","t","h","a","t">>>>,
      <<"n","o","t","e",":">>>>,
    <<<<<<"a","s"," ","a"," ","r","e","s","u","l","t"," ","o","f">>>>,
      <<"f","r","o","m">>>>,
    <<<<<<"i","n"," ","t","h","e"," ","e","v","e","n","t"," ","t","h","a","t">>>>,
      <<"i","f">>>>,
    <<<<<<"m","a","k","e"," ","u","s","e"," ","o","f">>>>,
      <<"u","s","e">>>>,
    <<<<<<"p","r","o","v","i","d","e"," ","a","s","s","i","s","t","a","n","c","e"," ","t","o">>>>,
      <<"h","e","l","p">>>>>>

\* the alternatives of the filler_words pattern
filler_words == {
    <<"a","c","t","u","a","l","l","y">>,
    <<"b","a","s","i","c","a","l","l","y">>,
    <<"e","s","s","e","n","t","i","a","l","l","y">>,
    <<"l","i","t","e","r","a","l","l","y">>,
    <<"o","b","v","i","o","u","s","l","y">>,
    <<"r","e","a","l","l","y">>,
    <<"v","e","r","y">>,
    <<"q","u","i","t","e">>,
    <<"r","a","t","h","e","r">>,
    <<"p","r","e","t","t","y">>,
    <<"j","u","s","t">>,
    <<"s","i","m","p","l","y">>,
    <<"m","e","r","e","l","y">>,
    <<"o","n","l","y">>}

\* self.preserve_patterns is modelled by IsTechnical below

IsWordAt(s, i) == i >= 1 /\ i <= Len(s) /\ IsWord(s[i])
\* regex \b between s[i] and s[i+1]
BoundaryAfter(s, i) == IsWordAt(s, i) # IsWordAt(s, i + 1)

\* re.IGNORECASE match of the lower-case literal pat at index i
MatchAtCI(s, i, pat) ==
    /\ i >= 1
    /\ i + Len(pat) - 1 <= Len(s)
    /\ \A k \in 1..Len(pat) : LowerChar(s[i + k - 1]) = pat[k]

\* \b(?:alt)\b matches at i, ignoring case
PhraseAt(s, i, alt) ==
    /\ MatchAtCI(s, i, alt)
    /\ BoundaryAfter(s, i - 1)
    /\ BoundaryAfter(s, i + Len(alt) - 1)

\* the first alternative of alts matching at i, 0 when none does
FirstAltAt(s, i, alts) ==
    IF \E a \in 1..Len(alts) : PhraseAt(s, i, alts[a])
    THEN CHOOSE a \in 1..Len(alts) :
            PhraseAt(s, i, alts[a]) /\ \A b \in 1..(a - 1) : ~PhraseAt(s, i, alts[b])
    ELSE 0

\* re.sub(r'\b(?:alt1|alt2|...)\b', repl, s, flags=re.IGNORECASE)
RECURSIVE SubPhrases(_, _, _, _)
SubPhrases(s, i, alts, repl) ==
    IF i > Len(s) THEN <<>>
    ELSE IF FirstAltAt(s, i, alts) # 0
         THEN repl \o SubPhrases(s, i + Len(alts[FirstAltAt(s, i, alts)]), alts, repl)
         ELSE <<s[i]>> \o SubPhrases(s, i + 1, alts, repl)

\* for verbose_pattern, concise_replacement in table[k..]: content = re.sub(...)
RECURSIVE ApplySubstitutions(_, _, _)
ApplySubstitutions(s, table, k) ==
    IF k > Len(table) THEN s
    ELSE ApplySubstitutions(SubPhrases(s, 1, table[k][1], table[k][2]), table, k + 1)

\* re.sub(filler_words, '', line, flags=re.IGNORECASE): a whole word that is a
\* filler word is removed
RECURSIVE RemoveFillers(_, _)
RemoveFillers(s, i) ==
    IF i > Len(s) THEN <<>>
    ELSE IF IsWord(s[i]) /\ ~IsWordAt(s, i - 1)
         THEN LET e == WordRunEnd(s, i)
              IN  IF Lower(SubSeq(s, i, e)) \in filler_words
                  THEN RemoveFillers(s, e + 1)
                  ELSE SubSeq(s, i, e) \o RemoveFillers(s, e + 1)
         ELSE <<s[i]>> \o RemoveFillers(s, i + 1)

\* re.sub(r'\s+', ' ', line)
RECURSIVE CollapseSpaces(_)
CollapseSpaces(s) ==
    IF s = <<>> THEN <<>>
    ELSE IF IsSpace(s[1])
         THEN IF Len(s) >= 2 /\ IsSpace(s[2])
              THEN CollapseSpaces(Tail(s))
              ELSE <<" ">> \o CollapseSpaces(Tail(s))
         ELSE <<s[1]>> \o CollapseSpaces(Tail(s))

IsLetter(c) == IsUpper(c) \/ IsLower(c)

\* preserve pattern 1: a fenced code block
HasCodeBlock(s) == \E i \in 1..Len(s) : CodeBlockEnd(s, i) # 0
\* preserve pattern 2: inline code, backtick + one or more non-backticks + backtick
HasInlineCode(s) ==
    \E i \in 1..Len(s) : \E j \in (i + 2)..Len(s) :
        /\ s[i] = Backtick /\ s[j] = Backtick
        /\ \A m \in (i + 1)..(j - 1) : s[m] # Backtick
\* preserve pattern 3: https?://[^\s]+
HasUrl(s) ==
    \E i \in 1..Len(s) :
        \/ /\ MatchAt(s, i, <<"h", "t", "t", "p", ":", "/", "/">>)
           /\ i + 7 <= Len(s) /\ ~IsSpace(s[i + 7])
        \/ /\ MatchAt(s, i, <<"h", "t", "t", "p", "s", ":", "/", "/">>)
           /\ i + 8 <= Len(s) /\ ~IsSpace(s[i + 8])
\* preserve pattern 4: [A-Z][A-Z_]+[A-Z]
HasConstant(s) ==
    \E i \in 1..Len(s) : \E j \in (i + 2)..Len(s) :
        /\ IsUpper(s[i]) /\ IsUpper(s[j])
        /\ \A m \in (i + 1)..(j - 1) : IsUpper(s[m]) \/ s[m] = "_"
\* preserve pattern 5: \b[A-Z][a-z]+[A-Z][A-Za-z]*\b
HasCamelCase(s) ==
    \E i \in 1..Len(s) : \E j \in (i + 2)..Len(s) : \E e \in j..Len(s) :
        /\ IsUpper(s[i]) /\ ~IsWordAt(s, i - 1)
        /\ \A m \in (i + 1)..(j - 1) : IsLower(s[m])
        /\ IsUpper(s[j])
        /\ \A m \in (j + 1)..e : IsLetter(s[m])
        /\ ~IsWordAt(s, e + 1)
\* preserve pattern 6: \$\{[^}]+\}
HasSubstitution(s) ==
    \E i \in 1..Len(s) : \E j \in (i + 3)..Len(s) :
        /\ s[i] = "$" /\ s[i + 1] = "{" /\ s[j] = "}"
        /\ \A m \in (i + 2)..(j - 1) : s[m] # "}"

\* any(re.search(pattern, line) for pattern in self.preserve_patterns)
IsTechnical(line) ==
    \/ HasCodeBlock(line) \/ HasInlineCode(line) \/ HasUrl(line)
    \/ HasConstant(line) \/ HasCamelCase(line) \/ HasSubstitution(line)

\* line.strip().startswith(('*', '-', '1.', '2.', '3.'))
IsListItem(line) ==
    LET t == Strip(line)
    IN  \/ MatchAt(t, 1, <<"*">>) \/ MatchAt(t, 1, <<"-">>)
        \/ MatchAt(t, 1, <<"1", ".">>) \/ MatchAt(t, 1, <<"2", ".">>)
        \/ MatchAt(t, 1, <<"3", ".">>)

\* the body of the loop over lines
CondenseLine(line) ==
    IF ~IsTechnical(line) /\ ~IsListItem(line)
    THEN CollapseSpaces(RemoveFillers(line, 1))
    ELSE line

\* the content semantic_condensation computes before it scores it
CondensedContent(content) ==
    LET c1    == ApplySubstitutions(content, condensation_patterns, 1)
        lines == SplitLines(c1)
    IN  Join([k \in 1..Len(lines) |-> CondenseLine(lines[k])], <<"\n">>)

\* max(0.95, 1.0 - (changes_made / len(original_content)) * 2), for a
\* non-empty original_content
\* the score with the sign of the penalty reversed
CondensationScoreSignFlipped(original, condensed) ==
    Rat(Len(original) + 2 * (Len(original) - Len(condensed)), Len(original))

CondensationScore(original, condensed) ==
    LET changes_made == Len(original) - Len(condensed)
    IN  IF 100 * (Len(original) - 2 * changes_made) >= 95 * Len(original)
        THEN Rat(Len(original) - 2 * changes_made, Len(original))
        ELSE Rat(95, 100)

(***************************************************************************)
(* pattern_abstraction                                                     *)
(***************************************************************************)
\* len(func_content) > 200 at line 287, len(json_content) > 300 at line 294,
\* pattern[:100] at line 307
large_function == 200
large_json == 300
dictionary_excerpt == 100

\* index of the first character of s at or after i that satisfies P, 0 when
\* there is none
FirstIndexFrom(s, i, P(_)) ==
    IF \E k \in i..Len(s) : P(s[k])
    THEN CHOOSE k \in i..Len(s) : P(s[k]) /\ \A m \in i..(k - 1) : ~P(s[m])
    ELSE 0

\* the first index k at or after i at which a match starts, 0 when none does
FirstStartFrom(s, i, Starts(_)) ==
    IF \E k \in i..Len(s) : Starts(k)
    THEN CHOOSE k \in i..Len(s) : Starts(k) /\ \A m \in i..(k - 1) : ~Starts(m)
    ELSE 0

\* last index of a run that the character at stop ends, stop = 0 standing for
\* a run that reaches the end of s
RunEndBefore(s, stop) == IF stop = 0 THEN Len(s) ELSE stop - 1

\* last index of the run of characters satisfying P that starts at i
RunEndFrom(s, i, P(_)) ==
    LET NotP(c) == ~P(c)
    IN  RunEndBefore(s, FirstIndexFrom(s, i, NotP))

IsColon(c) == c = ":"
IsCloseParen(c) == c = ")"
IsBrace(c) == c \in {"{", "}"}

\* the lookahead (?=\ndef|\nclass|\n\S|\Z) of line 285, tried at index i
FuncLookahead(s, i) ==
    \/ i = Len(s) + 1
    \/ MatchAt(s, i, <<"\n", "d", "e", "f">>)
    \/ MatchAt(s, i, <<"\n", "c", "l", "a", "s", "s">>)
    \/ i < Len(s) /\ s[i] = "\n" /\ ~IsSpace(s[i + 1])

\* [^:]*?(?=...) from index e + 1: the last index of the shortest colon-free
\* run after which the lookahead succeeds, -1 when a colon comes first
BodyEnd(s, e) ==
    LET stop == CHOOSE k \in e..Len(s) :
                    /\ FuncLookahead(s, k + 1)
                    /\ \A m \in e..(k - 1) : ~FuncLookahead(s, m + 1)
        colon == FirstIndexFrom(s, e + 1, IsColon)
    IN  IF colon = 0 \/ stop < colon THEN stop ELSE -1

\* def\s+(\w+)\([^)]*\):[^:]*?(?=...) matched at index i: the index of the
\* first and last character of the name and the last index of the match;
\* <<>> when the pattern does not match at i.  The match is followed group
\* by group: the body [^:]*? that ends at end,
FuncMatchEnd(name_start, name_end, end) ==
    IF end = -1 THEN <<>> ELSE <<name_start, name_end, end>>

\* the parameter list \([^)]*\): that closes at close,
FuncMatchClose(s, name_start, name_end, close) ==
    IF close = 0 THEN <<>>
    ELSE IF ~(close < Len(s) /\ s[close + 1] = ":") THEN <<>>
    ELSE FuncMatchEnd(name_start, name_end, BodyEnd(s, close + 1))

\* the name (\w+) that ends at name_end,
FuncMatchParams(s, name_start, name_end) ==
    IF ~(name_end < Len(s) /\ s[name_end + 1] = "(") THEN <<>>
    ELSE FuncMatchClose(s, name_start, name_end,
                        FirstIndexFrom(s, name_end + 2, IsCloseParen))

\* the name that starts at name_start after def\s+,
FuncMatchName(s, name_start) ==
    IF ~IsWordAt(s, name_start) THEN <<>>
    ELSE FuncMatchParams(s, name_start, RunEndFrom(s, name_start, IsWord))

\* and the keyword at i
FuncMatchAt(s, i) ==
    IF ~(MatchAt(s, i, <<"d", "e", "f">>) /\ i + 3 <= Len(s) /\ IsSpace(s[i + 3]))
    THEN <<>>
    ELSE FuncMatchName(s, RunEndFrom(s, i + 3, IsSpace) + 1)

\* the non-overlapping matches of line 285's pattern from index i on, left to
\* right, each as [name, text]: the capturing group and the whole match
RECURSIVE FuncMatches(_, _)
\* the match found at start, then the matches after it
FuncMatchesAfter(s, start, found) ==
    <<[name |-> SubSeq(s, found[1], found[2]),
       text |-> SubSeq(s, start, found[3])]>>
    \o FuncMatches(s, found[3] + 1)

\* the matches from the first one, which starts at start (0: there is none)
FuncMatchesAt(s, start) ==
    IF start = 0 THEN <<>>
    ELSE FuncMatchesAfter(s, start, FuncMatchAt(s, start))

FuncMatches(s, i) ==
    LET Starts(k) == FuncMatchAt(s, k) # <<>>
    IN  FuncMatchesAt(s, FirstStartFrom(s, i, Starts))

\* the capturing group of every match
GroupsOf(found) == [k \in 1..Len(found) |-> found[k].name]

\* the whole text of every match
TextsOf(found) == [k \in 1..Len(found) |-> found[k].text]

\* re.findall with one capturing group returns the group of every match:
\* func_patterns of line 285 holds the function names
func_patterns(content) == GroupsOf(FuncMatches(content, 1))

\* index of the first brace of s at or after i, 0 when absent
NextBrace(s, i) == FirstIndexFrom(s, i, IsBrace)

\* [^{}]*(?:\{[^{}]*\}[^{}]*)*\} from index i: the index of the closing
\* brace of a block whose inner blocks hold no brace, 0 when there is none
RECURSIVE JsonClose(_, _)
JsonClose(s, i) ==
    LET b == NextBrace(s, i)
    IN  IF b = 0 THEN 0
        ELSE IF s[b] = "}" THEN b
        ELSE LET inner == NextBrace(s, b + 1)
             IN  IF inner = 0 \/ s[inner] = "{" THEN 0
                 ELSE JsonClose(s, inner + 1)

\* json_patterns of line 292: the non-overlapping matches from index i on
RECURSIVE JsonMatches(_, _)
JsonMatches(s, i) ==
    LET Opens(k) == s[k] = "{" /\ JsonClose(s, k + 1) # 0
    IN  IF \A k \in i..Len(s) : ~Opens(k) THEN <<>>
        ELSE LET start == CHOOSE k \in i..Len(s) :
                              Opens(k) /\ \A m \in i..(k - 1) : ~Opens(m)
             IN  <<SubSeq(s, start, JsonClose(s, start + 1))>>
                 \o JsonMatches(s, JsonClose(s, start + 1) + 1)

json_patterns(content) == JsonMatches(content, 1)

\* f"[{kind}_{i}]"
AbstractTag(kind, i) == <<"[">> \o kind \o <<"_">> \o Decimal(i) \o <<"]">>

\* lines 286-289 and 293-296: (pattern, abstraction) for every found pattern
\* from the k-th on that is longer than limit; i = k - 1 is enumerate's index
RECURSIVE LargePatterns(_, _, _, _)
LargePatterns(patterns, k, limit, kind) ==
    IF k > Len(patterns) THEN <<>>
    ELSE (IF Len(patterns[k]) > limit
          THEN <<<<patterns[k], AbstractTag(kind, k - 1)>>>>
          ELSE <<>>)
         \o LargePatterns(patterns, k + 1, limit, kind)

\* pattern_abstractions after line 296
pattern_abstractions(content) ==
    LargePatterns(func_patterns(content), 1, large_function, <<"F", "U", "N", "C">>)
    \o LargePatterns(json_patterns(content), 1, large_json, <<"J", "S", "O", "N">>)

\* str.replace(pat, repl) for a non-empty pat: every non-overlapping
\* occurrence, left to right
RECURSIVE ReplaceAll(_, _, _, _)
ReplaceAll(s, i, pat, repl) ==
    IF \A k \in i..Len(s) : ~MatchAt(s, k, pat) THEN SubSeq(s, i, Len(s))
    ELSE LET at == CHOOSE k \in i..Len(s) :
                       /\ MatchAt(s, k, pat)
                       /\ \A m \in i..(k - 1) : ~MatchAt(s, m, pat)
         IN  SubSeq(s, i, at - 1) \o repl \o ReplaceAll(s, at + Len(pat), pat, repl)

\* lines 299-301: the abstractions from the k-th on applied in order
RECURSIVE Abstracted(_, _, _)
Abstracted(s, abstractions, k) ==
    IF k > Len(abstractions) THEN s
    ELSE Abstracted(ReplaceAll(s, 1, abstractions[k][1], abstractions[k][2]),
                    abstractions, k + 1)

\* "\n\n--- Pattern Abstractions ---\n"
DictionaryHeader ==
    <<"\n", "\n", "-", "-", "-", " ", "P", "a", "t", "t", "e", "r", "n", " ",
      "A", "b", "s", "t", "r", "a", "c", "t", "i", "o", "n", "s", " ",
      "-", "-", "-", "\n">>

\* f"{abstraction}: {pattern[:100]}{'...' if len(pattern) > 100 else ''}\n"
DictionaryEntry(pattern, abstraction) ==
    abstraction \o <<":", " ">>
    \o Take(pattern, IF Len(pattern) > dictionary_excerpt
                     THEN dictionary_excerpt ELSE Len(pattern))
    \o (IF Len(pattern) > dictionary_excerpt THEN <<".", ".", ".">> ELSE <<>>)
    \o <<"\n">>

\* lines 305-307: the header and one entry per abstraction from the k-th on
RECURSIVE DictionaryEntries(_, _)
DictionaryEntries(abstractions, k) ==
    IF k > Len(abstractions) THEN <<>>
    ELSE DictionaryEntry(abstractions[k][1], abstractions[k][2])
         \o DictionaryEntries(abstractions, k + 1)

\* The content pattern_abstraction returns (lines 299-308).  For the texts
\* of TextInScope (at most 200 characters) pattern_abstractions is empty and
\* the content is returned as it came.
AbstractedWith(content, abstractions) ==
    IF abstractions = <<>> THEN content
    ELSE Abstracted(content, abstractions, 1)
         \o DictionaryHeader \o DictionaryEntries(abstractions, 1)

PatternAbstracted(content) ==
    AbstractedWith(content, pattern_abstractions(content))

(***************************************************************************)
(* context_deduplication                                                   *)
(***************************************************************************)
\* end of a match of \n\s*\n at i, 0 when there is none
BlockBreakEnd(s, i) ==
    IF s[i] = "\n" /\ NewlinesIn(s, i, WsRunEnd(s, i)) >= 2
    THEN LastNewlineIn(s, i, WsRunEnd(s, i))
    ELSE 0

\* re.split(r'\n\s*\n', s), scanning from i with the piece started at from
RECURSIVE SplitBlocks(_, _, _)
SplitBlocks(s, from, i) ==
    IF i > Len(s) THEN <<SubSeq(s, from, Len(s))>>
    ELSE IF BlockBreakEnd(s, i) # 0
         THEN <<SubSeq(s, from, i - 1)>>
              \o SplitBlocks(s, BlockBreakEnd(s, i) + 1, BlockBreakEnd(s, i) + 1)
         ELSE SplitBlocks(s, from, i + 1)

\* set(re.findall(r'\b\w+\b', text.lower()))
WordSet(text) ==
    LET t == Lower(text)
    IN  {SubSeq(t, i, WordRunEnd(t, i)) :
            i \in {k \in 1..Len(t) : IsWord(t[k]) /\ ~IsWordAt(t, k - 1)}}

\* calculate_similarity(text1, text2), as a fraction
calculate_similarity(text1, text2) ==
    LET words1 == WordSet(text1)
        words2 == WordSet(text2)
    IN  IF words1 = {} \/ words2 = {} THEN Zero
        ELSE Rat(Cardinality(words1 \cap words2), Cardinality(words1 \cup words2))

similarity_threshold == Rat(8, 10)

\* the loop with a block dropped already at the threshold (similarity >= 0.8)
RECURSIVE UniqueBlocksAtLeast(_, _, _)
UniqueBlocksAtLeast(blocks, k, unique) ==
    IF k > Len(blocks) THEN unique
    ELSE LET block == Strip(blocks[k])
         IN  IF block = <<>> THEN UniqueBlocksAtLeast(blocks, k + 1, unique)
             ELSE IF \E u \in 1..Len(unique) :
                        RatLE(similarity_threshold, calculate_similarity(block, unique[u]))
                  THEN UniqueBlocksAtLeast(blocks, k + 1, unique)
                  ELSE UniqueBlocksAtLeast(blocks, k + 1, Append(unique, block))

\* the loop over blocks that fills unique_blocks
RECURSIVE UniqueBlocks(_, _, _)
UniqueBlocks(blocks, k, unique) ==
    IF k > Len(blocks) THEN unique
    ELSE LET block == Strip(blocks[k])
         IN  IF block = <<>> THEN UniqueBlocks(blocks, k + 1, unique)
             ELSE IF \E u \in 1..Len(unique) :
                        RatLT(similarity_threshold, calculate_similarity(block, unique[u]))
                  THEN UniqueBlocks(blocks, k + 1, unique)
                  ELSE UniqueBlocks(blocks, k + 1, Append(unique, block))

\* what context_deduplication returns: (deduplicated_content, preservation_score)
Deduplicated(content) ==
    LET blocks == SplitBlocks(content, 1, 1)
        unique == UniqueBlocks(blocks, 1, <<>>)
    IN  <<Join(unique, <<"\n", "\n">>),
          RatMin(Rat(99, 100),
                 IF Len(blocks) > 0 THEN Rat(Len(unique), Len(blocks)) ELSE One)>>

(***************************************************************************)
(* aggressive_compression                                                  *)
(***************************************************************************)
\* re.sub(mark + r'[^\n]*\n', '\n', s): a comment that starts with mark and is
\* ended by a newline is removed, the newline stays
RECURSIVE SubLineComments(_, _, _)
SubLineComments(s, i, mark) ==
    IF i > Len(s) THEN <<>>
    ELSE IF MatchAt(s, i, mark) /\ FirstNewline(Drop(s, i - 1)) # 0
         THEN <<"\n">> \o SubLineComments(s, i + FirstNewline(Drop(s, i - 1)), mark)
         ELSE <<s[i]>> \o SubLineComments(s, i + 1, mark)

\* re.sub(r'/\*.*?\*/', '', s, flags=re.DOTALL)
RECURSIVE SubBlockComments(_, _)
SubBlockComments(s, i) ==
    IF i > Len(s) THEN <<>>
    ELSE IF MatchAt(s, i, <<"/", "*">>) /\ FindFirst(Drop(s, i + 1), <<"*", "/">>) # 0
         THEN SubBlockComments(s, i + 2 + FindFirst(Drop(s, i + 1), <<"*", "/">>) + 1)
         ELSE <<s[i]>> \o SubBlockComments(s, i + 1)

\* the alternatives of the example pattern
example_phrases == <<
    <<"e","x","a","m","p","l","e">>,
    <<"e",".","g",".">>,
    <<"f","o","r"," ","i","n","s","t","a","n","c","e">>,
    <<"s","u","c","h"," ","a","s">>>>

\* re.search(r'\b(?:example|e\.g\.|for instance|such as)\b', line, re.IGNORECASE)
MentionsExample(line) ==
    \E i \in 1..Len(line) : FirstAltAt(line, i, example_phrases) # 0

max_examples == 2

\* the loop over lines that fills filtered_lines
RECURSIVE FilterExamples(_, _, _)
FilterExamples(lines, k, example_count) ==
    IF k > Len(lines) THEN <<>>
    ELSE IF MentionsExample(lines[k])
         THEN (IF example_count + 1 <= max_examples THEN <<lines[k]>> ELSE <<>>)
              \o FilterExamples(lines, k + 1, example_count + 1)
         ELSE <<lines[k]>> \o FilterExamples(lines, k + 1, example_count)

\* (full_word alternatives, abbrev) rows of abbreviations, in order
abbreviations == <<
    <<<<<<"f","u","n","c","t","i","o","n">>>>, <<"f","n">>>>,
    <<<<<<"p","a","r","a","m","e","t","e","r">>>>, <<"p","a","r","a","m">>>>,
    <<<<<<"a","r","g","u","m","e","n","t">>>>, <<"a","r","g">>>>,
    <<<<<<"v","a","r","i","a","b","l","e">>>>, <<"v","a","r">>>>,
    <<<<<<"c","o","n","f","i","g","u","r","a","t","i","o","n">>>>, <<"c","o","n","f","i","g">>>>,
    <<<<<<"e","n","v","i","r","o","n","m","e","n","t">>>>, <<"e","n","v">>>>,
    <<<<<<"d","i","r","e","c","t","o","r","y">>>>, <<"d","i","r">>>>,
    <<<<<<"e","x","e","c","u","t","e">>>>, <<"e","x","e","c">>>>,
    <<<<<<"i","n","i","t","i","a","l","i","z","a","t","i","o","n">>>>, <<"i","n","i","t">>>>,
    <<<<<<"o","p","t","i","m","i","z","a","t","i","o","n">>>>, <<"o","p","t">>>>>>

\* the content aggressive_compression returns
AggressivelyCompressed(content) ==
    LET c1 == SubLineComments(content, 1, <<"#">>)
        c2 == SubLineComments(c1, 1, <<"/", "/">>)
        c3 == SubBlockComments(c2, 1)
        c4 == Join(FilterExamples(SplitLines(c3), 1, 0), <<"\n">>)
    IN  ApplySubstitutions(c4, abbreviations, 1)

(***************************************************************************)
(* The six strategies as compress_content calls them: each returns the     *)
(* pair (content, preservation_score)                                      *)
(***************************************************************************)
compress_whitespace(content) == <<WhitespaceOptimized(content), One>>
eliminate_redundancy(content) == <<RedundancyEliminated(content), Rat(99, 100)>>
\* defined for non-empty content; on empty content line 274 divides by zero
semantic_condensation(content) ==
    LET condensed == CondensedContent(content)
    IN  <<condensed, CondensationScore(content, condensed)>>
pattern_abstraction(content) == <<PatternAbstracted(content), Rat(98, 100)>>
context_deduplication(content) == Deduplicated(content)
aggressive_compression(content) == <<AggressivelyCompressed(content), Rat(90, 100)>>

\* the if/elif chain of the try body: the call made for one strategy name
RunStrategy(strategy, content) ==
    CASE strategy = "whitespace_optimization" -> compress_whitespace(content)
      [] strategy = "redundancy_elimination"  -> eliminate_redundancy(content)
      [] strategy = "semantic_condensation"   -> semantic_condensation(content)
      [] strategy = "pattern_abstraction"     -> pattern_abstraction(content)
      [] strategy = "context_deduplication"   -> context_deduplication(content)
      [] strategy = "aggressive_compression"  -> aggressive_compression(content)

\* the strategy call raises: semantic_condensation divides by
\* len(original_content), a ZeroDivisionError on empty content
StrategyRaises(strategy, content) ==
    strategy = "semantic_condensation" /\ Len(content) = 0

(***************************************************************************)
(* compress_content: selection, cache key, result                          *)
(***************************************************************************)
chars_per_token == 4

\* the selection with each tier closed from the other side (target < bound)
SelectStrategiesStrict(target_reduction, aggressive_mode) ==
    IF ~aggressive_mode
    THEN IF RatLT(target_reduction, Rat(10, 100))
         THEN <<"whitespace_optimization">>
         ELSE IF RatLT(target_reduction, Rat(20, 100))
         THEN <<"whitespace_optimization", "redundancy_elimination">>
         ELSE IF RatLT(target_reduction, Rat(30, 100))
         THEN <<"whitespace_optimization", "redundancy_elimination",
                "semantic_condensation">>
         ELSE <<"whitespace_optimization", "redundancy_elimination",
                "semantic_condensation", "pattern_abstraction">>
    ELSE <<"aggressive_compression", "context_deduplication",
           "semantic_condensation", "whitespace_optimization">>

\* the selection of selected_strategies from target_reduction (a fraction)
\* and aggressive_mode
SelectStrategies(target_reduction, aggressive_mode) ==
    IF ~aggressive_mode
    THEN IF RatLE(target_reduction, Rat(10, 100))
         THEN <<"whitespace_optimization">>
         ELSE IF RatLE(target_reduction, Rat(20, 100))
         THEN <<"whitespace_optimization", "redundancy_elimination">>
         ELSE IF RatLE(target_reduction, Rat(30, 100))
         THEN <<"whitespace_optimization", "redundancy_elimination",
                "semantic_condensation">>
         ELSE <<"whitespace_optimization", "redundancy_elimination",
                "semantic_condensation", "pattern_abstraction">>
    ELSE <<"aggressive_compression", "context_deduplication",
           "semantic_condensation", "whitespace_optimization">>

\* hashlib.md5(content.encode()).hexdigest(): a digest that identifies the
\* content (no two of the modelled texts collide)
md5(content) == <<"md5", content>>

\* a key that leaves out aggressive_mode
CacheKeyWithoutMode(content, target_reduction, aggressive_mode) ==
    <<md5(content), target_reduction>>

\* f"{content_hash}_{target_reduction}_{aggressive_mode}": the digest is 32
\* hexadecimal digits and the repr of a float and of a bool identify the value,
\* so the string identifies the three parts
CacheKey(content, target_reduction, aggressive_mode) ==
    <<md5(content), target_reduction, aggressive_mode>>

\* current_reduction >= target_reduction, where
\* current_reduction = 1 - (len(compressed_content) / original_size) and
\* original_size > 0
TargetReached(compressed_size, original_size, target_reduction) ==
    (original_size - compressed_size) * target_reduction[2]
        >= target_reduction[1] * original_size

\* compressed_size / original_size if original_size > 0 else 1.0
CompressionRatio(compressed_size, original_size) ==
    IF original_size > 0 THEN Rat(compressed_size, original_size) ELSE One

\* the CompressionResult built at the end of compress_content; method_used
\* is kept as the list that ', '.join turns into the field
CompressionResult(content, compressed, preservation, methods, seconds) ==
    [original_size      |-> Len(content),
     compressed_size    |-> Len(compressed),
     tokens_saved       |-> (Len(content) \div chars_per_token)
                              - (Len(compressed) \div chars_per_token),
     compression_ratio  |-> CompressionRatio(Len(compressed), Len(content)),
     preservation_score |-> preservation,
     processing_time    |-> seconds,
     method_used        |-> methods,
     content_hash       |-> md5(content)]

\* the result is not stored
CacheInsertSkipped(cache, key, r) == cache

\* an insert into a cache that holds one entry only
CacheInsertEvicting(cache, key, r) == [k \in {key} |-> r]

\* line 499: self.compression_cache[cache_key] = result
CacheInsert(cache, key, r) ==
    [k \in DOMAIN cache \cup {key} |-> IF k = key THEN r ELSE cache[k]]

\* timedelta.seconds: the seconds field, which leaves out whole days
SecondsPerDay == 86400
TimedeltaSeconds(delta) == delta % SecondsPerDay

(***************************************************************************)
(* analyze_content                                                         *)
(***************************************************************************)
RatAdd(x, y) == Rat(x[1] * y[2] + y[1] * x[2], x[2] * y[2])

\* re.findall(redundant_patterns[0], content): the pattern has no group, the
\* matched texts are returned
RECURSIVE BlankLineMatches(_, _)
BlankLineMatches(s, i) ==
    LET Starts(k) == s[k] = "\n" /\ NewlinesIn(s, k, WsRunEnd(s, k)) >= 3
        start == FirstStartFrom(s, i, Starts)
    IN  IF start = 0 THEN <<>>
        ELSE LET end == LastNewlineIn(s, start, WsRunEnd(s, start))
             IN  <<SubSeq(s, start, end)>> \o BlankLineMatches(s, end + 1)

\* repr() of a string of whitespace characters
RECURSIVE ReprEscaped(_)
ReprEscaped(s) ==
    IF s = <<>> THEN <<>>
    ELSE (CASE s[1] = "\n" -> <<"\\", "n">>
            [] s[1] = "\t" -> <<"\\", "t">>
            [] s[1] = "\r" -> <<"\\", "r">>
            [] s[1] = "\f" -> <<"\\", "x", "0", "c">>
            [] OTHER -> <<s[1]>>)
         \o ReprEscaped(Tail(s))
Repr(s) == <<"'">> \o ReprEscaped(s) \o <<"'">>

\* str(match) for the matches of redundant_patterns[1]: the pattern has two
\* groups, so a match is the tuple of both; a whitespace run of two or more
\* characters gives (all but its last character, its last character)
RECURSIVE SpaceRunMatches(_, _)
SpaceRunMatches(s, i) ==
    LET Starts(k) == IsSpace(s[k]) /\ WsRunEnd(s, k) > k
        start == FirstStartFrom(s, i, Starts)
    IN  IF start = 0 THEN <<>>
        ELSE LET end == WsRunEnd(s, start)
             IN  <<<<"(">> \o Repr(SubSeq(s, start, end - 1)) \o <<",", " ">>
                   \o Repr(<<s[end]>>) \o <<")">>>>
                 \o SpaceRunMatches(s, end + 1)

\* re.findall(redundant_patterns[2], content): group 1 of every match, the
\* last repetition of the phrase
RECURSIVE SamePhraseMatches(_, _)
SamePhraseMatches(s, i) ==
    LET Starts(k) == SamePhraseEnd(s, k) # 0 /\ SamePhraseEnd(s, SamePhraseEnd(s, k) + 1) # 0
        start == FirstStartFrom(s, i, Starts)
    IN  IF start = 0 THEN <<>>
        ELSE LET l == LastSamePhrase(s, start)
             IN  <<SubSeq(s, l, SamePhraseEnd(s, l))>>
                 \o SamePhraseMatches(s, SamePhraseEnd(s, l) + 1)

\* re.findall(redundant_patterns[3], content): group 1 of every match
RECURSIVE WordRepeatMatches(_, _)
WordRepeatMatches(s, i) ==
    LET Starts(k) == WordRepeatUnit(s, k) # 0
        start == FirstStartFrom(s, i, Starts)
    IN  IF start = 0 THEN <<>>
        ELSE LET u == WordRepeatUnit(s, start)
                 e == WordSpaceEnd(s, u)
             IN  <<SubSeq(s, u, e)>> \o WordRepeatMatches(s, e + (e - u + 1) + 1)

\* re.findall(redundant_patterns[4], content): group 1 of every match
RECURSIVE DuplicateBlockMatches(_, _)
DuplicateBlockMatches(s, i) ==
    LET Starts(k) == DuplicateBlockEnd(s, k) # 0
        start == FirstStartFrom(s, i, Starts)
    IN  IF start = 0 THEN <<>>
        ELSE <<SubSeq(s, start, CodeBlockEnd(s, start))>>
             \o DuplicateBlockMatches(s, DuplicateBlockEnd(s, start) + 1)

\* lines 93-97: str(match) of every match of every pattern, pattern by pattern
redundant_patterns(content) ==
    BlankLineMatches(content, 1) \o SpaceRunMatches(content, 1)
    \o SamePhraseMatches(content, 1) \o WordRepeatMatches(content, 1)
    \o DuplicateBlockMatches(content, 1)

\* len(line_clean) > 20 at line 107, count > 2 at line 111, len(block) > 1000
\* at line 122, block[:100] at line 125
substantial_line == 20
repetition_floor == 2
large_code_block == 1000
section_excerpt == 100

\* lines 103-117: one section per distinct stripped line of more than 20
\* characters that occurs more than twice, in order of first occurrence
\* (savings_potential is kept as a fraction, as for the code blocks)
RECURSIVE RepetitiveLines(_, _)
RepetitiveLines(lines, k) ==
    IF k > Len(lines) THEN <<>>
    ELSE LET line_clean == Strip(lines[k])
             count == LineFrequency(lines, line_clean)
         IN  (IF /\ Len(line_clean) > substantial_line
                 /\ count > repetition_floor
                 /\ \A j \in 1..(k - 1) : Strip(lines[j]) # line_clean
              THEN <<[type |-> "repetitive_line", content |-> line_clean,
                      count |-> count,
                      savings_potential |-> Rat(Len(line_clean) * (count - 1), 1)]>>
              ELSE <<>>)
             \o RepetitiveLines(lines, k + 1)

\* lines 120-128: one section per fenced block of more than 1000 characters;
\* len(block) * 0.2 is kept as the fraction len(block) / 5
RECURSIVE LargeCodeBlocks(_, _)
LargeCodeBlocks(code_blocks, k) ==
    IF k > Len(code_blocks) THEN <<>>
    ELSE (IF Len(code_blocks[k]) > large_code_block
          THEN <<[type |-> "large_code_block",
                  content |-> Take(code_blocks[k], section_excerpt) \o <<".", ".", ".">>,
                  size |-> Len(code_blocks[k]),
                  savings_potential |-> Rat(Len(code_blocks[k]), 5)]>>
          ELSE <<>>)
         \o LargeCodeBlocks(code_blocks, k + 1)

compressible_sections(content) ==
    RepetitiveLines(SplitLines(content), 1) \o LargeCodeBlocks(CodeBlocks(content, 1), 1)

\* set(re.findall(r'\b\w+\b', content.lower())): the maximal runs of word
\* characters of the lower-cased content
unique_words(content) ==
    LET s == Lower(content)
    IN  {SubSeq(s, i, RunEndFrom(s, i, IsWord)) :
            i \in {k \in 1..Len(s) : IsWord(s[k]) /\ (k = 1 \/ ~IsWord(s[k - 1]))}}

\* len(unique_words) / len(content) if content else 0
semantic_density(content) ==
    IF Len(content) > 0 THEN Rat(Cardinality(unique_words(content)), Len(content))
    ELSE Zero

RECURSIVE SumOfLengths(_)
SumOfLengths(texts) ==
    IF texts = <<>> THEN 0 ELSE Len(texts[1]) + SumOfLengths(Tail(texts))

RECURSIVE SumOfSavings(_)
SumOfSavings(sections) ==
    IF sections = <<>> THEN Zero
    ELSE RatAdd(sections[1].savings_potential, SumOfSavings(Tail(sections)))

\* sum(len(p) for p in redundant_patterns) / len(content) if content else 0
redundancy_score(content) ==
    IF Len(content) > 0 THEN Rat(SumOfLengths(redundant_patterns(content)), Len(content))
    ELSE Zero

\* sum(s['savings_potential'] for s in compressible_sections) / len(content)
\* if content else 0
repetition_score(content) ==
    IF Len(content) > 0
    THEN LET total == SumOfSavings(compressible_sections(content))
         IN  Rat(total[1], total[2] * Len(content))
    ELSE Zero

\* the sum of the two scores without the cap
UncappedPotential(content) ==
    RatAdd(redundancy_score(content), repetition_score(content))

\* min(0.5, redundancy_score + repetition_score)
optimization_potential(content) ==
    RatMin(Rat(1, 2), RatAdd(redundancy_score(content), repetition_score(content)))

\* the ContentAnalysis analyze_content returns
analyze_content(content) ==
    [total_tokens           |-> Len(content) \div chars_per_token,
     redundant_patterns     |-> redundant_patterns(content),
     compressible_sections  |-> compressible_sections(content),
     semantic_density       |-> semantic_density(content),
     optimization_potential |-> optimization_potential(content)]

(***************************************************************************)
(* Inputs                                                                  *)
(***************************************************************************)
\* every text over Alphabet of at most MaxLen characters is an input
MaxLen == 1
Alphabet == {"a", " ", "\n"}
ShortTexts == UNION {[1..k -> Alphabet] : k \in 0..MaxLen}

\* a line that occurs three times
RepeatedLines == <<"a", "\n", "a", "\n", "a">>
\* prose with a filler word
FillerProse == <<"v", "e", "r", "y", " ", "a">>
\* two identical blocks
TwoBlocks == <<"a", "\n", "\n", "a">>
\* a comment line followed by text
Commented == <<"#", "a", "\n", "b">>

\* a comment line only: aggressive compression leaves nothing of it
CommentOnly == <<"#", "a">>

Contents == ShortTexts \cup {RepeatedLines, FillerProse, TwoBlocks, Commented, CommentOnly}

\* the length pattern_abstraction needs before it abstracts anything
TextInScope(text) == Len(text) <= 200

\* target_reduction values, one per tier of the selection; they are binary
\* fractions, for which the float comparisons of the source are exact
TargetReductions == {Rat(1, 16), Rat(1, 8), Rat(1, 4), Rat(1, 2)}
\* --max-time with AWOC_ML_TIMEOUT (an override, or the default of 60) and
\* --preservation-threshold
Governors ==
    {[max_time |-> 0, env_timeout |-> 60, preservation_threshold |-> Rat(98, 100)],
     [max_time |-> 1, env_timeout |-> 60, preservation_threshold |-> Rat(98, 100)],
     [max_time |-> 1, env_timeout |-> 60, preservation_threshold |-> Rat(1, 2)],
     [max_time |-> 2, env_timeout |-> 1,  preservation_threshold |-> Rat(1, 2)]}

\* the arguments main parses, with the content it reads
CompressArgs ==
    {[action |-> "compress", content |-> c, target_reduction |-> t,
      max_time |-> g.max_time, aggressive_mode |-> m,
      preservation_threshold |-> g.preservation_threshold,
      env_timeout |-> g.env_timeout] :
        c \in Contents, t \in TargetReductions, m \in BOOLEAN, g \in Governors}
\* analyze reads none of the compression options: they keep their defaults
AnalyzeArgs ==
    [action : {"analyze"}, content : Contents,
     target_reduction : {Rat(1, 4)}, max_time : {1},
     aggressive_mode : {FALSE}, preservation_threshold : {Rat(98, 100)},
     env_timeout : {1, 60}]
CliArgs == CompressArgs \cup AnalyzeArgs

\* calls a program that uses the engine as a library makes on one engine
LibCall(content, target_reduction, max_time, aggressive_mode) ==
    [action |-> "compress", content |-> content,
     target_reduction |-> target_reduction, max_time |-> max_time,
     aggressive_mode |-> aggressive_mode,
     preservation_threshold |-> Rat(98, 100), env_timeout |-> 60]
LibCalls ==
    {LibCall(RepeatedLines, Rat(1, 8), 1, FALSE),
     LibCall(<<>>, Rat(1, 4), 1, TRUE),
     LibCall(<<" ">>, Rat(1, 4), 1, FALSE)}
MaxCalls == 3
\* the clock is followed for MaxClock seconds, and over one jump of a day
MaxClock == 1

(***************************************************************************)
(* State                                                                   *)
(***************************************************************************)
VARIABLES
    driver,               \* "cli": one run of main(); "lib": calls on one engine
    args,                 \* the arguments of the run / of the current call
    pc,                   \* the statement about to execute
    now,                  \* the wall clock, in seconds
    alarm,                \* the time the SIGALRM is due, NoAlarm when disarmed
    compression_cache,    \* self.compression_cache
    start_time,           \* locals of compress_content
    selected_strategies,
    strategy_index,       \* position of the for loop in selected_strategies
    compressed_content,
    preservation,
    overall_preservation,
    method_used,
    result,               \* what compress_content returned to main (0 or 1 results)
    stdout,               \* the JSON objects printed to stdout
    stderr,               \* the JSON objects and tracebacks printed to stderr
    exit_code,            \* Running until the exit status is known
    handled,              \* exceptions caught by the except clause of the loop
    async_raised,         \* asynchronous exceptions raised so far, with their place
    pipeline_runs,        \* the cache keys for which the pipeline was started
    returned,             \* the calls that returned on this engine, with results
    calls_made

engine == <<compression_cache>>
frame  == <<start_time, selected_strategies, strategy_index, compressed_content,
            preservation, overall_preservation, method_used>>
outputs == <<result, stdout, stderr, exit_code>>
history == <<handled, async_raised, pipeline_runs, returned, calls_made>>
vars == <<driver, args, pc, now, alarm, engine, frame, outputs, history>>

NoAlarm == -1
Running == -1

\* the statements of the try body of the loop of compress_content
TryBody == {"call", "score", "append", "target"}
\* statements of compress_content outside that try body
PipelineOuter == {"entry", "loop", "finish"}
\* statements of main inside its try block
MainTry == {"read", "analyze", "output"}
\* the except clauses of main
MainExcept == {"except_timeout", "except_oom", "except_other"}

strategy == selected_strategies[strategy_index]
original_size == Len(args.content)
\* a key that tells the time limits apart
cache_key_with_max_time ==
    <<md5(args.content), args.target_reduction, args.aggressive_mode, args.max_time>>
cache_key == CacheKey(args.content, args.target_reduction, args.aggressive_mode)

Init ==
    /\ \/ driver = "cli" /\ args \in CliArgs /\ pc = "arm"
       \/ driver = "lib" /\ args \in {LibCall(<<>>, Rat(1, 4), 1, FALSE)} /\ pc = "idle"
    /\ now = 0
    /\ alarm = NoAlarm
    /\ compression_cache = << >>
    /\ start_time = 0
    /\ selected_strategies = << >>
    /\ strategy_index = 1
    /\ compressed_content = << >>
    /\ preservation = One
    /\ overall_preservation = One
    /\ method_used = << >>
    /\ result = << >>
    /\ stdout = << >>
    /\ stderr = << >>
    /\ exit_code = Running
    /\ handled = << >>
    /\ async_raised = << >>
    /\ pipeline_runs = << >>
    /\ returned = << >>
    /\ calls_made = 0

\* the SIGALRM is due: Python runs timeout_handler before the next statement
AlarmDue == alarm # NoAlarm /\ now >= alarm

(***************************************************************************)
(* compress_content                                                        *)
(***************************************************************************)
\* the caller gets r back: main goes on to print it, a library caller is done
ReturnToCaller(r, hit) ==
    /\ result' = <<r>>
    /\ pc' = IF driver = "cli" THEN "output" ELSE "idle"
    /\ returned' = Append(returned, [call |-> args, result |-> r, hit |-> hit])

\* an entry whose selection reads the analysis: a dense text gets the first
\* strategy only
EntrySelectsByAnalysis ==
    /\ pc = "entry"
    /\ ~AlarmDue
    /\ start_time' = now
    /\ IF cache_key \in DOMAIN compression_cache
       THEN /\ ReturnToCaller(compression_cache[cache_key], TRUE)
            /\ UNCHANGED <<selected_strategies, strategy_index, compressed_content,
                           overall_preservation, method_used, pipeline_runs>>
       ELSE /\ selected_strategies' =
                   IF RatLT(Rat(1, 4), analyze_content(args.content).semantic_density)
                   THEN SubSeq(SelectStrategies(args.target_reduction,
                                                args.aggressive_mode), 1, 1)
                   ELSE SelectStrategies(args.target_reduction, args.aggressive_mode)
            /\ strategy_index' = 1
            /\ compressed_content' = args.content
            /\ overall_preservation' = One
            /\ method_used' = << >>
            /\ pipeline_runs' = Append(pipeline_runs, cache_key)
            /\ pc' = "loop"
            /\ UNCHANGED <<result, returned>>
    /\ UNCHANGED <<driver, args, now, alarm, engine, preservation, stdout, stderr,
                   exit_code, handled, async_raised, calls_made>>

\* lines 410-448: start_time, the cache lookup, the analysis (which changes
\* nothing), the selection and the initial working state
Entry ==
    /\ pc = "entry"
    /\ ~AlarmDue
    /\ start_time' = now
    /\ IF cache_key \in DOMAIN compression_cache
       THEN /\ ReturnToCaller(compression_cache[cache_key], TRUE)
            /\ UNCHANGED <<selected_strategies, strategy_index, compressed_content,
                           overall_preservation, method_used, pipeline_runs>>
       ELSE /\ selected_strategies' =
                   SelectStrategies(args.target_reduction, args.aggressive_mode)
            /\ strategy_index' = 1
            /\ compressed_content' = args.content
            /\ overall_preservation' = One
            /\ method_used' = << >>
            /\ pipeline_runs' = Append(pipeline_runs, cache_key)
            /\ pc' = "loop"
            /\ UNCHANGED <<result, returned>>
    /\ UNCHANGED <<driver, args, now, alarm, engine, preservation, stdout, stderr,
                   exit_code, handled, async_raised, calls_made>>

\* a loop head that also stops once the score is below the threshold
LoopHeadStopsBelowThreshold ==
    /\ pc = "loop"
    /\ ~AlarmDue
    /\ pc' = IF strategy_index > Len(selected_strategies) THEN "finish"
             ELSE IF TimedeltaSeconds(now - start_time) >= args.max_time THEN "finish"
             ELSE IF RatLT(overall_preservation, args.preservation_threshold) THEN "finish"
             ELSE "call"
    /\ UNCHANGED <<driver, args, now, alarm, engine, frame, outputs, history>>

\* lines 450-453: the for loop takes the next strategy, or ends; before a
\* strategy the elapsed seconds are compared with max_time
LoopHead ==
    /\ pc = "loop"
    /\ ~AlarmDue
    /\ pc' = IF strategy_index > Len(selected_strategies) THEN "finish"
             ELSE IF TimedeltaSeconds(now - start_time) >= args.max_time THEN "finish"
             ELSE "call"
    /\ UNCHANGED <<driver, args, now, alarm, engine, frame, outputs, history>>

\* an except clause that breaks out of the loop
ContinueAborts(exception) ==
    /\ handled' = Append(handled, [call |-> calls_made, strategy |-> strategy,
                                   exception |-> exception, at |-> pc])
    /\ strategy_index' = strategy_index + 1
    /\ pc' = "finish"

\* lines 477-479: the except clause logs and continues with the next strategy
Continue(exception) ==
    /\ handled' = Append(handled, [call |-> calls_made, strategy |-> strategy,
                                   exception |-> exception, at |-> pc])
    /\ strategy_index' = strategy_index + 1
    /\ pc' = "loop"

\* lines 456-467: the call of the strategy and the assignment of its result
StrategyCall ==
    /\ pc = "call"
    /\ ~AlarmDue
    /\ IF StrategyRaises(strategy, compressed_content)
       THEN /\ Continue("ZeroDivisionError")
            /\ UNCHANGED <<compressed_content, preservation>>
       ELSE /\ LET applied == RunStrategy(strategy, compressed_content)
               IN  /\ compressed_content' = applied[1]
                   /\ preservation' = applied[2]
            /\ pc' = "score"
            /\ UNCHANGED <<strategy_index, handled>>
    /\ UNCHANGED <<driver, args, now, alarm, engine, start_time, selected_strategies,
                   overall_preservation, method_used, outputs, async_raised,
                   pipeline_runs, returned, calls_made>>

\* line 469: overall_preservation *= preservation
Score ==
    /\ pc = "score"
    /\ ~AlarmDue
    /\ overall_preservation' = RatMul(overall_preservation, preservation)
    /\ pc' = "append"
    /\ UNCHANGED <<driver, args, now, alarm, engine, start_time, selected_strategies,
                   strategy_index, compressed_content, preservation, method_used,
                   outputs, history>>

\* method_used.insert(0, strategy)
PrependMethod ==
    /\ pc = "append"
    /\ ~AlarmDue
    /\ method_used' = <<strategy>> \o method_used
    /\ pc' = "target"
    /\ UNCHANGED <<driver, args, now, alarm, engine, start_time, selected_strategies,
                   strategy_index, compressed_content, preservation,
                   overall_preservation, outputs, history>>

\* line 470: method_used.append(strategy)
AppendMethod ==
    /\ pc = "append"
    /\ ~AlarmDue
    /\ method_used' = Append(method_used, strategy)
    /\ pc' = "target"
    /\ UNCHANGED <<driver, args, now, alarm, engine, start_time, selected_strategies,
                   strategy_index, compressed_content, preservation,
                   overall_preservation, outputs, history>>

\* a target check that runs the same strategy again when the target is missed
TargetCheckRepeats ==
    /\ pc = "target"
    /\ ~AlarmDue
    /\ IF original_size = 0
       THEN Continue("ZeroDivisionError")
       ELSE IF TargetReached(Len(compressed_content), original_size, args.target_reduction)
       THEN pc' = "finish" /\ UNCHANGED <<strategy_index, handled>>
       ELSE pc' = "loop" /\ UNCHANGED <<strategy_index, handled>>
    /\ UNCHANGED <<driver, args, now, alarm, engine, start_time, selected_strategies,
                   compressed_content, preservation, overall_preservation, method_used,
                   outputs, async_raised, pipeline_runs, returned, calls_made>>

\* lines 473-475: the target check; the division by original_size raises
\* ZeroDivisionError for empty content, inside the try body
TargetCheck ==
    /\ pc = "target"
    /\ ~AlarmDue
    /\ IF original_size = 0
       THEN Continue("ZeroDivisionError")
       ELSE IF TargetReached(Len(compressed_content), original_size, args.target_reduction)
       THEN pc' = "finish" /\ UNCHANGED <<strategy_index, handled>>
       ELSE pc' = "loop" /\ strategy_index' = strategy_index + 1 /\ UNCHANGED handled
    /\ UNCHANGED <<driver, args, now, alarm, engine, start_time, selected_strategies,
                   compressed_content, preservation, overall_preservation, method_used,
                   outputs, async_raised, pipeline_runs, returned, calls_made>>

\* lines 481-504: the metrics, the result, the cache insert and the return
Finish ==
    /\ pc = "finish"
    /\ ~AlarmDue
    /\ LET r == CompressionResult(args.content, compressed_content,
                                  overall_preservation, method_used, now - start_time)
       IN  /\ compression_cache' = CacheInsert(compression_cache, cache_key, r)
           /\ ReturnToCaller(r, FALSE)
    /\ UNCHANGED <<driver, args, now, alarm, frame, stdout, stderr, exit_code,
                   handled, async_raised, pipeline_runs, calls_made>>

(***************************************************************************)
(* main                                                                    *)
(***************************************************************************)
\* round(x, digits): to the nearest multiple of 10^-digits, a tie to the even
\* one
RECURSIVE Scaled(_, _, _)
\* <<floor(n * 10^digits / d), the remainder>>, one decimal digit at a time
Scaled(n, d, digits) ==
    IF digits = 0 THEN <<n \div d, n % d>>
    ELSE LET s == Scaled(n, d, digits - 1)
         IN  <<s[1] * 10 + (s[2] * 10) \div d, (s[2] * 10) % d>>
RECURSIVE Pow10(_)
Pow10(digits) == IF digits = 0 THEN 1 ELSE 10 * Pow10(digits - 1)
Round(x, digits) ==
    LET s == Scaled(x[1], x[2], digits)
    IN  IF 2 * s[2] < x[2] \/ (2 * s[2] = x[2] /\ s[1] % 2 = 0)
        THEN Rat(s[1], Pow10(digits)) ELSE Rat(s[1] + 1, Pow10(digits))

\* lines 537-540: timeout = min(max_time, override); signal.alarm(timeout),
\* and signal.alarm(0) arms nothing
Arm ==
    /\ pc = "arm"
    /\ LET timeout == IF args.max_time <= args.env_timeout
                      THEN args.max_time ELSE args.env_timeout
       IN  alarm' = IF timeout > 0 THEN now + timeout ELSE NoAlarm
    /\ pc' = "construct"
    /\ UNCHANGED <<driver, args, now, engine, frame, outputs, history>>

\* line 543: compressor = SemanticCompressor(args.preservation_threshold)
Construct ==
    /\ pc = "construct"
    /\ ~AlarmDue
    /\ compression_cache' = << >>
    /\ pc' = "read"
    /\ UNCHANGED <<driver, args, now, alarm, frame, outputs, history>>

\* lines 546-559 and 574: the content is read; empty content ends the run
\* with sys.exit(1), otherwise the action is dispatched
Read ==
    /\ pc = "read"
    /\ ~AlarmDue
    /\ IF Strip(args.content) = << >>
       THEN exit_code' = 1 /\ pc' = "finally"
       ELSE exit_code' = exit_code
            /\ pc' = IF args.action = "analyze" THEN "analyze" ELSE "entry"
    /\ UNCHANGED <<driver, args, now, alarm, engine, frame, result, stdout, stderr,
                   history>>

\* lines 548-553: opening or decoding the input raises (OSError, UnicodeDecodeError)
ReadFails ==
    /\ pc = "read"
    /\ ~AlarmDue
    /\ pc' = "except_other"
    /\ UNCHANGED <<driver, args, now, alarm, engine, frame, outputs, history>>

\* lines 561-572: the analysis is printed
Analyze ==
    /\ pc = "analyze"
    /\ ~AlarmDue
    /\ stdout' = Append(stdout, [total_tokens |-> Len(args.content) \div chars_per_token])
    /\ pc' = "finally"
    /\ UNCHANGED <<driver, args, now, alarm, engine, frame, result, stderr, exit_code,
                   history>>

\* lines 583-607: the metrics of the result are printed
Output ==
    /\ pc = "output"
    /\ ~AlarmDue
    /\ LET r == result[1]
       IN  stdout' = Append(stdout,
              [status |-> "success",
               original_size |-> r.original_size,
               compressed_size |-> r.compressed_size,
               tokens_saved |-> r.tokens_saved,
               compression_ratio |-> Round(r.compression_ratio, 3),
               reduction_percentage |->
                   Round(Rat(100 * (r.compression_ratio[2] - r.compression_ratio[1]),
                             r.compression_ratio[2]), 1),
               preservation_score |-> Round(r.preservation_score, 3),
               processing_time |-> r.processing_time,
               methods_used |-> r.method_used,
               meets_preservation_threshold |->
                   RatLE(args.preservation_threshold, r.preservation_score)])
    /\ pc' = "finally"
    /\ UNCHANGED <<driver, args, now, alarm, engine, frame, result, stderr, exit_code,
                   history>>

\* the error an except clause of main prints before sys.exit(1)
ErrorOf(clause) ==
    CASE clause = "except_timeout" -> "timeout"
      [] clause = "except_oom"     -> "out_of_memory"
      [] clause = "except_other"   -> "str(e)"

\* lines 609-620: an except clause prints the error object and calls sys.exit(1)
Except ==
    /\ pc \in MainExcept
    /\ ~AlarmDue
    /\ stderr' = Append(stderr, [status |-> "error", error |-> ErrorOf(pc)])
    /\ exit_code' = 1
    /\ pc' = "finally"
    /\ UNCHANGED <<driver, args, now, alarm, engine, frame, result, stdout, history>>

\* a finally block without signal.alarm(0)
FinallyLeavesAlarm ==
    /\ pc = "finally"
    /\ ~AlarmDue
    /\ exit_code' = IF exit_code = Running THEN 0 ELSE exit_code
    /\ pc' = "done"
    /\ UNCHANGED <<driver, args, now, alarm, engine, frame, result, stdout, stderr,
                   history>>

\* lines 621-623: finally: signal.alarm(0); then the process ends
Finally ==
    /\ pc = "finally"
    /\ ~AlarmDue
    /\ alarm' = NoAlarm
    /\ exit_code' = IF exit_code = Running THEN 0 ELSE exit_code
    /\ pc' = "done"
    /\ UNCHANGED <<driver, args, now, engine, frame, result, stdout, stderr, history>>

(***************************************************************************)
(* Asynchronous exceptions of a run of main: the SIGALRM handler raises    *)
(* TimeoutError, the address-space limit makes an allocation raise         *)
(* MemoryError.  Both are subclasses of Exception.                         *)
(***************************************************************************)
\* where an exception raised at the current statement ends up
Raise(exception) ==
    /\ async_raised' = Append(async_raised, [exception |-> exception, at |-> pc])
    /\ IF pc \in TryBody
       THEN \* caught by the except clause of the loop (line 477)
            /\ Continue(exception)
            /\ UNCHANGED <<stderr, exit_code>>
       ELSE IF pc \in PipelineOuter \cup MainTry
       THEN \* caught by the matching except clause of main
            /\ pc' = IF exception = "TimeoutError" THEN "except_timeout" ELSE "except_oom"
            /\ UNCHANGED <<strategy_index, handled, stderr, exit_code>>
       ELSE \* raised in an except clause, in the finally block or before the
            \* try: nothing catches it, the interpreter prints the traceback
            \* and exits with status 1; from an except clause the finally block
            \* still runs
            /\ pc' = IF pc \in MainExcept THEN "finally" ELSE "done"
            /\ stderr' = Append(stderr, [traceback |-> exception])
            /\ exit_code' = 1
            /\ UNCHANGED <<strategy_index, handled>>

\* lines 507-508: the alarm goes off and timeout_handler raises TimeoutError
AlarmFires ==
    /\ AlarmDue
    /\ pc # "done"
    /\ alarm' = NoAlarm
    /\ Raise("TimeoutError")
    /\ UNCHANGED <<driver, args, now, engine, start_time, selected_strategies,
                   compressed_content, preservation, overall_preservation,
                   method_used, result, stdout, pipeline_runs, returned, calls_made>>

\* the statements that allocate in proportion to the content: f.read() and
\* the strategy calls
Allocating == {"read", "call"}

\* an allocation fails under the RLIMIT_AS that main sets (lines 511-520)
OutOfMemory ==
    /\ driver = "cli"
    /\ pc \in Allocating
    /\ ~AlarmDue
    /\ \A k \in 1..Len(async_raised) : async_raised[k].exception # "MemoryError"
    /\ Raise("MemoryError")
    /\ UNCHANGED <<driver, args, now, alarm, engine, start_time, selected_strategies,
                   compressed_content, preservation, overall_preservation,
                   method_used, result, stdout, pipeline_runs, returned, calls_made>>

(***************************************************************************)
(* A library caller, and the clock                                         *)
(***************************************************************************)
\* the next call of compress_content on the engine
Call ==
    /\ driver = "lib"
    /\ pc = "idle"
    /\ calls_made < MaxCalls
    /\ args' \in LibCalls
    /\ calls_made' = calls_made + 1
    /\ pc' = "entry"
    /\ UNCHANGED <<driver, now, alarm, engine, frame, outputs, handled, async_raised,
                   pipeline_runs, returned>>

\* a second passes
Tick ==
    /\ pc \notin {"arm", "idle", "done"}
    /\ ~AlarmDue
    /\ (now % SecondsPerDay) < MaxClock
    /\ now' = now + 1
    /\ UNCHANGED <<driver, args, pc, alarm, engine, frame, outputs, history>>

\* the process is stopped for a day (suspended machine, SIGSTOP)
TickDay ==
    /\ pc \notin {"arm", "idle", "done"}
    /\ ~AlarmDue
    /\ now < SecondsPerDay
    /\ now' = now + SecondsPerDay
    /\ UNCHANGED <<driver, args, pc, alarm, engine, frame, outputs, history>>

Next ==
    \/ Arm \/ Construct \/ Read \/ ReadFails \/ Analyze \/ Output \/ Except \/ Finally
    \/ Entry \/ LoopHead \/ StrategyCall \/ Score \/ AppendMethod \/ TargetCheck \/ Finish
    \/ AlarmFires \/ OutOfMemory
    \/ Call \/ Tick \/ TickDay

Spec == Init /\ [][Next]_vars

\* the interpreter executes the next statement of compress_content, and runs
\* the signal handler of an alarm that is due
Step ==
    \/ Entry \/ LoopHead \/ Score \/ AppendMethod \/ TargetCheck \/ Finish
    \/ AlarmFires
\* a strategy call comes back: every strategy is a fixed number of regular
\* expression passes and loops over the lines of a finite string
StrategyCallEnds == []<>(pc # "call")
FairSpec == Spec /\ WF_vars(Step) /\ StrategyCallEnds

\* the texts stay within the scope of the strategy operators
TextsInScope == TextInScope(args.content) /\ TextInScope(compressed_content)

TypeOK ==
    /\ driver \in {"cli", "lib"}
    /\ pc \in {"arm", "construct", "done", "finally", "idle"}
                \cup TryBody \cup PipelineOuter \cup MainTry \cup MainExcept
    /\ now \in 0..(SecondsPerDay + MaxClock)
    /\ strategy_index \in 1..5
    /\ exit_code \in {Running, 0, 1}
    /\ Len(result) <= 1

(***************************************************************************)
(* The strategy methods called directly                                    *)
(*                                                                         *)
(* compress_whitespace, eliminate_redundancy, ... are public methods of    *)
(* SemanticCompressor: a caller applies one to a text and may apply one    *)
(* again to what it got back.  compressed_content is the text in hand,     *)
(* preservation the factor the last method returned, method_used the       *)
(* methods applied so far; a method that raises is recorded in handled.    *)
(***************************************************************************)
\* inline code with a run of two spaces
InlineCode == <<Backtick, "a", " ", " ", "b", Backtick>>
\* a fenced block that holds the placeholder text, followed by an empty
\* fenced block, two spaces and three backticks
FencedPlaceholder ==
    <<Backtick, Backtick, Backtick>> \o CodePlaceholder
        \o <<Backtick, Backtick, Backtick, Backtick, Backtick, Backtick>>
        \o <<" ", " ", Backtick, Backtick, Backtick>>
\* an indented line that occurs three times
IndentedLines == <<" ", "a", "\n", " ", "a", "\n", " ", "a">>
\* two blocks that share four of their five words: similarity exactly 0.8
BlocksAtThreshold ==
    <<"a", " ", "b", " ", "c", " ", "d", " ", "e", "\n", "\n",
      "a", " ", "b", " ", "c", " ", "d">>
\* a numbered list item with a filler word
NumberedItem == <<"4", ".", " ", "v", "e", "r", "y", " ", "a">>
StrategyInputs ==
    Contents \cup {InlineCode, FencedPlaceholder, IndentedLines, BlocksAtThreshold,
                   NumberedItem}
\* the keys of self.strategies
StrategyNames ==
    {"whitespace_optimization", "redundancy_elimination", "semantic_condensation",
     "pattern_abstraction", "context_deduplication", "aggressive_compression"}
\* how many methods the caller applies in a row
MaxApplications == 2

StrategyInit ==
    /\ driver = "strategy"
    /\ args \in {LibCall(c, Rat(1, 4), 1, FALSE) : c \in StrategyInputs}
    /\ pc = "apply"
    /\ now = 0
    /\ alarm = NoAlarm
    /\ compression_cache = << >>
    /\ start_time = 0
    /\ selected_strategies = << >>
    /\ strategy_index = 1
    /\ compressed_content = args.content
    /\ preservation = One
    /\ overall_preservation = One
    /\ method_used = << >>
    /\ result = << >>
    /\ stdout = << >>
    /\ stderr = << >>
    /\ exit_code = Running
    /\ handled = << >>
    /\ async_raised = << >>
    /\ pipeline_runs = << >>
    /\ returned = << >>
    /\ calls_made = 0

\* content, preservation = self.<method>(content)
Apply(name) ==
    /\ driver = "strategy"
    /\ pc = "apply"
    /\ Len(method_used) + Len(handled) < MaxApplications
    /\ IF StrategyRaises(name, compressed_content)
       THEN /\ handled' = Append(handled, [call |-> calls_made, strategy |-> name,
                                           exception |-> "ZeroDivisionError", at |-> now])
            /\ UNCHANGED <<compressed_content, preservation, method_used>>
       ELSE /\ LET applied == RunStrategy(name, compressed_content)
               IN  /\ compressed_content' = applied[1]
                   /\ preservation' = applied[2]
            /\ method_used' = Append(method_used, name)
            /\ UNCHANGED handled
    /\ UNCHANGED <<driver, args, pc, now, alarm, engine, start_time, selected_strategies,
                   strategy_index, overall_preservation, outputs, async_raised,
                   pipeline_runs, returned, calls_made>>

StrategyNext == \E name \in StrategyNames : Apply(name)
StrategySpec == StrategyInit /\ [][StrategyNext]_vars

(***************************************************************************)
(* One caller making calls on one engine, with repeated configurations     *)
(***************************************************************************)
\* the configurations come in pairs: the same content, target and mode with a
\* larger max_time, and another content with the same target and mode
EngineCalls ==
    {LibCall(RepeatedLines, Rat(1, 8), 1, FALSE),
     LibCall(RepeatedLines, Rat(1, 8), 2, FALSE),
     LibCall(FillerProse, Rat(1, 8), 1, FALSE),
     LibCall(<< >>, Rat(1, 4), 1, FALSE),
     LibCall(<< >>, Rat(1, 4), 2, FALSE)}

EngineInit ==
    /\ driver = "engine"
    /\ args \in {LibCall(<< >>, Rat(1, 4), 1, FALSE)}
    /\ pc = "idle"
    /\ now = 0
    /\ alarm = NoAlarm
    /\ compression_cache = << >>
    /\ start_time = 0
    /\ selected_strategies = << >>
    /\ strategy_index = 1
    /\ compressed_content = << >>
    /\ preservation = One
    /\ overall_preservation = One
    /\ method_used = << >>
    /\ result = << >>
    /\ stdout = << >>
    /\ stderr = << >>
    /\ exit_code = Running
    /\ handled = << >>
    /\ async_raised = << >>
    /\ pipeline_runs = << >>
    /\ returned = << >>
    /\ calls_made = 0

\* the next call of compress_content on the engine
EngineCall ==
    /\ driver = "engine"
    /\ pc = "idle"
    /\ calls_made < MaxCalls
    /\ args' \in EngineCalls
    /\ calls_made' = calls_made + 1
    /\ pc' = "entry"
    /\ UNCHANGED <<driver, now, alarm, engine, frame, outputs, handled, async_raised,
                   pipeline_runs, returned>>

EngineNext ==
    \/ EngineCall
    \/ Entry \/ LoopHead \/ StrategyCall \/ Score \/ AppendMethod \/ TargetCheck \/ Finish
    \/ Tick

EngineSpec == EngineInit /\ [][EngineNext]_vars

(***************************************************************************)
(* pattern_abstraction called on texts around its two length thresholds    *)
(***************************************************************************)
\* how far below and above a threshold the lengths of the texts go
MaxExcess == 8
Excesses == (0 - MaxExcess)..MaxExcess

Filler(c, n) == [k \in 1..n |-> c]
\* a function of one statement: the whole definition is n characters long
FunctionText(n) ==
    <<"d", "e", "f", " ", "f", "(", ")", ":", "\n", " ">> \o Filler("x", n - 10)
\* a function whose name is n characters long, and a later use of the name
LongNameText(n) ==
    <<"d", "e", "f", " ">> \o Filler("g", n) \o <<"(", ")", ":", "\n", " ", "p", "\n">>
    \o Filler("g", n)
\* a brace block of n characters
JsonText(n) == <<"{">> \o Filler("x", n - 2) \o <<"}">>

AbstractionInputs ==
    {FunctionText(large_function + d) : d \in Excesses}
    \cup {LongNameText(large_function + d) : d \in Excesses}
    \cup {JsonText(large_json + d) : d \in Excesses}
    \cup {JsonText(dictionary_excerpt + d) : d \in Excesses}

AbstractionInit ==
    /\ driver = "abstraction"
    /\ args \in {LibCall(c, Rat(1, 2), 1, FALSE) : c \in AbstractionInputs}
    /\ pc = "apply"
    /\ now = 0
    /\ alarm = NoAlarm
    /\ compression_cache = << >>
    /\ start_time = 0
    /\ selected_strategies = << >>
    /\ strategy_index = 1
    /\ compressed_content = args.content
    /\ preservation = One
    /\ overall_preservation = One
    /\ method_used = << >>
    /\ result = << >>
    /\ stdout = << >>
    /\ stderr = << >>
    /\ exit_code = Running
    /\ handled = << >>
    /\ async_raised = << >>
    /\ pipeline_runs = << >>
    /\ returned = << >>
    /\ calls_made = 0

\* content, preservation = self.pattern_abstraction(content)
Abstract ==
    /\ driver = "abstraction"
    /\ pc = "apply"
    /\ Len(method_used) < MaxApplications
    /\ LET applied == pattern_abstraction(compressed_content)
       IN  /\ compressed_content' = applied[1]
           /\ preservation' = applied[2]
    /\ method_used' = Append(method_used, "pattern_abstraction")
    /\ UNCHANGED <<driver, args, pc, now, alarm, engine, start_time, selected_strategies,
                   strategy_index, overall_preservation, outputs, handled, async_raised,
                   pipeline_runs, returned, calls_made>>

AbstractionNext == Abstract
AbstractionSpec == AbstractionInit /\ [][AbstractionNext]_vars

(***************************************************************************)
(* Properties of compress_content and main                                 *)
(***************************************************************************)
\* the CompressionResults compress_content has returned
Results == {returned[k].result : k \in 1..Len(returned)}

InUnitInterval(x) == RatLE(Zero, x) /\ RatLE(x, One)

\* C1: every CompressionResult compress_content returns has
\* 0 < compression_ratio <= 1 when original_size > 0 and compression_ratio = 1
\* when original_size = 0.  The code does not keep this: redundancy
\* elimination can lengthen the text, whitespace optimization can empty it.
C1_RatioInUnitInterval ==
    \A r \in Results :
        IF r.original_size > 0
        THEN RatLT(Zero, r.compression_ratio) /\ RatLE(r.compression_ratio, One)
        ELSE r.compression_ratio = One

\* C2: within a run of compress_content the running preservation score starts
\* at 1, never increases from one pipeline step to the next (a strategy appended
\* to method_used has multiplied it by a score of at most 1), and it and every
\* strategy's score stay within [0, 1]
C2_PreservationScoreRange ==
    /\ [](InUnitInterval(overall_preservation) /\ InUnitInterval(preservation))
    /\ [][(pc = "entry" /\ pc' = "loop") => overall_preservation' = One]_vars
    /\ [][pc # "entry" => RatLE(overall_preservation', overall_preservation)]_vars

\* C2 witness: strategies have run on empty content and were appended, and the
\* running score has dropped below 1
C2_Witness ==
    /\ pc = "target"
    /\ compressed_content = << >>
    /\ Len(method_used) >= 2
    /\ RatLT(overall_preservation, One)

\* the alarm raised TimeoutError before compress_content had returned
DeadlineFiredInPipeline ==
    \E k \in 1..Len(async_raised) :
        /\ async_raised[k].exception = "TimeoutError"
        /\ async_raised[k].at \in TryBody \cup PipelineOuter

\* C3: a run of main in which the deadline fired before the pipeline returned
\* ends with the timeout error on stderr, exit code 1 and nothing on stdout.
\* The code does not keep this: a TimeoutError raised inside the try body of
\* the loop is caught by the except clause of line 477.
C3_DeadlineFailsOperation ==
    (driver = "cli" /\ pc = "done" /\ DeadlineFiredInPipeline) =>
        /\ exit_code = 1
        /\ stdout = << >>
        /\ \E k \in 1..Len(stderr) : stderr[k] = [status |-> "error", error |-> "timeout"]

\* the cache key a call asks for: md5 of the content, target_reduction and
\* aggressive_mode
KeyOf(call) == <<md5(call.content), call.target_reduction, call.aggressive_mode>>

\* the keys of the calls that have returned
KeysReturned == {KeyOf(returned[k].call) : k \in 1..Len(returned)}

\* C4: a call whose key is in the cache is a hit and gets the stored result
\* without a pipeline run; a call whose key is absent runs the pipeline and its
\* result is in the cache when it returns; after any sequence of calls the
\* pipeline has run exactly once for each distinct key requested
C4_CacheHitAndMiss ==
    /\ \A k \in 1..Len(returned) :
          /\ KeyOf(returned[k].call) \in DOMAIN compression_cache
          /\ compression_cache[KeyOf(returned[k].call)] = returned[k].result
          /\ returned[k].hit <=>
                \E j \in 1..(k - 1) : KeyOf(returned[j].call) = KeyOf(returned[k].call)
    /\ \A i, j \in 1..Len(pipeline_runs) : pipeline_runs[i] = pipeline_runs[j] => i = j
    /\ pc = "idle" => {pipeline_runs[k] : k \in 1..Len(pipeline_runs)} = KeysReturned

\* C4 witness: three calls have returned, the third a hit on the key of the
\* first, and the pipeline has run twice
C4_Witness ==
    /\ pc = "idle"
    /\ Len(returned) = 3
    /\ ~returned[2].hit
    /\ returned[3].hit
    /\ KeyOf(returned[3].call) = KeyOf(returned[1].call)
    /\ Len(pipeline_runs) = 2

\* C5: two calls on the engine with the same content and the same
\* configuration have returned the same CompressionResult, whatever was called
\* in between
C5_CacheDeterminism ==
    \A i, j \in 1..Len(returned) :
        returned[i].call = returned[j].call => returned[i].result = returned[j].result

\* C5 witness: the same call was made first and third, another call between
\* them, and the clock has moved since the first result was computed
C5_Witness ==
    /\ Len(returned) = 3
    /\ returned[1].call = returned[3].call
    /\ returned[2].call # returned[1].call
    /\ now > returned[1].result.processing_time

\* C6: in no terminal state of a run of main is the alarm still armed
C6_AlarmDisarmedAtExit ==
    (driver = "cli" /\ pc = "done") => alarm = NoAlarm

\* C6 witness: the run armed the alarm, ended through the out-of-memory clause
\* before the alarm went off, and is over
C6_Witness ==
    /\ driver = "cli"
    /\ pc = "done"
    /\ args.max_time > 0
    /\ \E k \in 1..Len(stderr) : stderr[k] = [status |-> "error", error |-> "out_of_memory"]
    /\ \A k \in 1..Len(async_raised) : async_raised[k].exception # "TimeoutError"

\* this step is a strategy call raising an exception, which line 477 catches
StrategyRaised ==
    /\ Len(handled') = Len(handled) + 1
    /\ handled'[Len(handled')].at = "call"

\* C7: when a strategy call raises, the working content, the running score and
\* method_used are left as they were, the name of the strategy is not in
\* method_used, and the loop goes on with the next selected strategy; the loop
\* ends only when the list is exhausted or the elapsed-time check says so
C7_StrategyFailureSkipped ==
    /\ [][StrategyRaised =>
            /\ compressed_content' = compressed_content
            /\ overall_preservation' = overall_preservation
            /\ method_used' = method_used
            /\ \A k \in 1..Len(method_used') : method_used'[k] # strategy
            /\ selected_strategies' = selected_strategies
            /\ strategy_index' = strategy_index + 1
            /\ pc' = "loop"]_vars
    /\ [][(pc = "loop" /\ pc' = "finish") =>
            \/ strategy_index > Len(selected_strategies)
            \/ TimedeltaSeconds(now - start_time) >= args.max_time]_vars

\* C7 witness: the previous strategy of this call raised in its call, and the
\* next one is about to be called
C7_Witness ==
    /\ pc = "call"
    /\ strategy_index > 1
    /\ \E k \in 1..Len(handled) :
          /\ handled[k].call = calls_made
          /\ handled[k].at = "call"
          /\ handled[k].exception = "ZeroDivisionError"
          /\ handled[k].strategy = selected_strategies[strategy_index - 1]

\* C8: the loop calls a strategy only while the elapsed wall time is below
\* max_time.  The code does not keep this: it compares the seconds field of
\* the elapsed timedelta, which leaves out whole days.
C8_ElapsedCheckStops ==
    [][(pc = "loop" /\ pc' = "call") => now - start_time < args.max_time]_vars

\* C9: a strategy is called after an applied one only while the reduction is
\* below the target, and the target check ends the loop only when the
\* reduction has reached the target.  The code does not keep the first half:
\* a TimeoutError raised in the target check is caught by line 477 and the
\* loop continues.
C9_StopsAtTarget ==
    /\ [][(pc = "call" /\ pc' = "score" /\ method_used # << >> /\ original_size > 0) =>
            ~TargetReached(Len(compressed_content), original_size,
                           args.target_reduction)]_vars
    /\ [][(pc = "target" /\ pc' = "finish") =>
            /\ original_size > 0
            /\ TargetReached(Len(compressed_content), original_size,
                             args.target_reduction)]_vars

\* the position of a strategy in the selected list
PositionOf(name) == CHOOSE k \in 1..Len(selected_strategies) : selected_strategies[k] = name

\* the statements of one invocation's pipeline
InPipeline == pc \in TryBody \cup {"loop", "finish"}

\* no exception was caught by line 477 in the current invocation
NothingRaised == \A k \in 1..Len(handled) : handled[k].call # calls_made

AggressiveTier == <<"aggressive_compression", "context_deduplication",
                    "semantic_condensation", "whitespace_optimization">>
TierUpTo10 == <<"whitespace_optimization">>
TierUpTo20 == TierUpTo10 \o <<"redundancy_elimination">>
TierUpTo30 == TierUpTo20 \o <<"semantic_condensation">>
TierAbove30 == TierUpTo30 \o <<"pattern_abstraction">>
\* percentages on and next to the bounds of the tiers
TierProbes == {0, 1, 9, 10, 11, 19, 20, 21, 29, 30, 31, 50, 99, 100}
StatedSelection(percent, aggressive_mode) ==
    IF aggressive_mode THEN AggressiveTier
    ELSE IF percent <= 10 THEN TierUpTo10
    ELSE IF percent <= 20 THEN TierUpTo20
    ELSE IF percent <= 30 THEN TierUpTo30
    ELSE TierAbove30
\* the stated list for a target given as a fraction
StatedFor(target_reduction, aggressive_mode) ==
    IF aggressive_mode THEN AggressiveTier
    ELSE IF 10 * target_reduction[1] <= target_reduction[2] THEN TierUpTo10
    ELSE IF 5 * target_reduction[1] <= target_reduction[2] THEN TierUpTo20
    ELSE IF 10 * target_reduction[1] <= 3 * target_reduction[2] THEN TierUpTo30
    ELSE TierAbove30

\* C11: the strategies a compress operation selects are the stated function
\* of (target_reduction, aggressive_mode): the aggressive list for every
\* target in aggressive mode, otherwise the tier of the target, with the
\* bounds 0.10, 0.20 and 0.30 belonging to the lower tier (asked of the
\* selection for targets on and next to the bounds whenever an operation is
\* about to select); while a pipeline runs, selected_strategies is that list
\* for the arguments of the call.
C11_SelectionIsStated ==
    /\ pc = "entry" =>
          \A percent \in TierProbes, m \in BOOLEAN :
              SelectStrategies(Rat(percent, 100), m) = StatedSelection(percent, m)
    /\ InPipeline =>
          selected_strategies = StatedFor(args.target_reduction, args.aggressive_mode)
\* a standard-mode pipeline of the top tier is calling its fourth strategy
C11_Witness ==
    /\ pc = "call"
    /\ ~args.aggressive_mode
    /\ strategy_index = 4
    /\ strategy = "pattern_abstraction"


(***************************************************************************)
(* C12: content that must survive a strategy                               *)
(***************************************************************************)
IsSubstring(part, text) ==
    \E i \in 1..(Len(text) - Len(part) + 1) : MatchAt(text, i, part)
\* the whole of s is a fenced code block
IsFencedCode(s) ==
    /\ Len(s) >= 6
    /\ MatchAt(s, 1, Fence) /\ MatchAt(s, Len(s) - 2, Fence)
    /\ \A m \in 4..(Len(s) - 3) : s[m] # Backtick
\* the whole of s is inline code
IsInlineCode(s) ==
    /\ Len(s) >= 3
    /\ s[1] = Backtick /\ s[Len(s)] = Backtick
    /\ \A m \in 2..(Len(s) - 1) : s[m] # Backtick
\* the whole of s is a URL
IsUrl(s) ==
    /\ \/ MatchAt(s, 1, <<"h", "t", "t", "p", ":", "/", "/">>) /\ Len(s) > 7
       \/ MatchAt(s, 1, <<"h", "t", "t", "p", "s", ":", "/", "/">>) /\ Len(s) > 8
    /\ \A m \in 1..Len(s) : ~IsSpace(s[m])
\* the whole of s is a variable substitution
IsSubstitution(s) ==
    /\ Len(s) >= 4
    /\ s[1] = "$" /\ s[2] = "{" /\ s[Len(s)] = "}"
    /\ \A m \in 3..(Len(s) - 1) : s[m] # "}"
\* the substrings of text that match one of the four patterns
PreservedSpans(text) ==
    {span \in {SubSeq(text, i, j) : i \in 1..Len(text), j \in 1..Len(text)} :
        IsFencedCode(span) \/ IsInlineCode(span) \/ IsUrl(span) \/ IsSubstitution(span)}
PreservingStrategies ==
    {"whitespace_optimization", "redundancy_elimination", "semantic_condensation",
     "context_deduplication"}
\* the step applies the named strategy method to the text in hand
Applies(name) ==
    /\ driver = "strategy"
    /\ method_used' = Append(method_used, name)

\* C12: whenever whitespace_optimization, redundancy_elimination,
\* semantic_condensation or context_deduplication is applied to a text, every
\* substring of that text that is a fenced code block, inline code, a URL or
\* a ${...} substitution occurs verbatim in the text the strategy returns.
C12_PreservedVerbatim ==
    [][\A name \in PreservingStrategies :
          Applies(name) =>
              \A span \in PreservedSpans(compressed_content) :
                  IsSubstring(span, compressed_content')]_vars


(***************************************************************************)
(* C13: whitespace_optimization applied twice                              *)
(***************************************************************************)
\* C13: whitespace_optimization applied to a text that whitespace_optimization
\* returned gives that text back, and reports a preservation factor of 1.0 in
\* both applications.
C13_WhitespaceIdempotent ==
    [][(/\ Applies("whitespace_optimization")
        /\ method_used # << >>
        /\ method_used[Len(method_used)] = "whitespace_optimization")
         => /\ compressed_content' = compressed_content
            /\ preservation = One
            /\ preservation' = One]_vars


(***************************************************************************)
(* C14: failing runs of main                                               *)
(***************************************************************************)
ErrorKinds == {"timeout", "out_of_memory", "str(e)"}
\* an error object {"status": "error", "error": kind} is on stderr
ErrorObjectPrinted ==
    \E k \in 1..Len(stderr) :
        /\ DOMAIN stderr[k] = {"status", "error"}
        /\ stderr[k].status = "error"
        /\ stderr[k].error \in ErrorKinds

\* C14: a run of main that ends with a non-zero exit status ends with status 1
\* and has printed an error object {status: "error", error: kind} to stderr.
C14_FailureReported ==
    (driver = "cli" /\ pc = "done" /\ exit_code # 0)
        => (exit_code = 1 /\ ErrorObjectPrinted)


(***************************************************************************)
(* C15: MemoryError during a compress operation                            *)
(***************************************************************************)
Raised(exception) ==
    \E k \in 1..Len(async_raised) : async_raised[k].exception = exception

\* C15: a run of main in which a MemoryError was raised (and the deadline did
\* not go off) ends with exit status 1, the error object "out_of_memory" on
\* stderr and nothing on stdout.
C15_OutOfMemoryIsFatal ==
    (driver = "cli" /\ pc = "done" /\ Raised("MemoryError") /\ ~Raised("TimeoutError"))
        => /\ exit_code = 1
           /\ stdout = << >>
           /\ \E k \in 1..Len(stderr) :
                 stderr[k] = [status |-> "error", error |-> "out_of_memory"]


(***************************************************************************)
(* C16: the preservation threshold                                         *)
(***************************************************************************)
\* what the pipeline yields when the clock does not move while it runs, as a
\* function of the content, the target, the mode and the time limit:
\* <<compressed content, preservation score, methods used>>
RECURSIVE PipelineFrom(_, _, _, _, _, _, _)
\* lines 469-476 once the k-th strategy has returned applied: the score, the
\* method list and the check of the target
PipelineAfter(strategies, k, applied, original_size_, target_reduction, score, methods) ==
    IF original_size_ > 0
       /\ TargetReached(Len(applied[1]), original_size_, target_reduction)
    THEN <<applied[1], RatMul(score, applied[2]), Append(methods, strategies[k])>>
    ELSE PipelineFrom(strategies, k + 1, applied[1], original_size_, target_reduction,
                      RatMul(score, applied[2]), Append(methods, strategies[k]))

PipelineFrom(strategies, k, content, original_size_, target_reduction, score, methods) ==
    IF k > Len(strategies) THEN <<content, score, methods>>
    ELSE IF StrategyRaises(strategies[k], content)
    THEN PipelineFrom(strategies, k + 1, content, original_size_, target_reduction,
                      score, methods)
    ELSE PipelineAfter(strategies, k, RunStrategy(strategies[k], content),
                       original_size_, target_reduction, score, methods)

\* the result built from what the pipeline yields
ResultOfRun(call, run) == CompressionResult(call.content, run[1], run[2], run[3], 0)

UndisturbedResult(call) ==
    ResultOfRun(call,
                IF call.max_time = 0 THEN <<call.content, One, << >> >>
                ELSE PipelineFrom(SelectStrategies(call.target_reduction,
                                                   call.aggressive_mode),
                                  1, call.content, Len(call.content),
                                  call.target_reduction, One, << >>))
\* a compress run of main that read its content and met no exception
CleanCompressRun ==
    /\ driver = "cli" /\ args.action = "compress"
    /\ pc = "done"
    /\ Strip(args.content) # << >>
    /\ async_raised = << >> /\ stderr = << >>

StatedDeadline == IF args.max_time <= args.env_timeout THEN args.max_time
                  ELSE args.env_timeout

\* C17: the deadline of a run is min(max_time, override or 60) seconds after
\* the alarm call: once the clock has reached it, the only thing the run does
\* (if the TimeoutError has not been raised yet) is raise the TimeoutError.
C17_DeadlineIsMin ==
    [][(/\ driver = "cli"
        /\ pc # "arm"
        /\ pc' # pc
        /\ now >= StatedDeadline
        /\ ~Raised("TimeoutError"))
          => \E k \in 1..Len(async_raised') :
                async_raised'[k].exception = "TimeoutError"]_vars


(***************************************************************************)
(* C18: the preservation score of a result                                 *)
(***************************************************************************)
\* the product of the factors the listed strategies return when they are
\* applied to the content in the listed order, from the k-th on
RECURSIVE ProductOfFactors(_, _, _)
ProductOfFactors(content, methods, k) ==
    IF k > Len(methods) THEN One
    ELSE IF StrategyRaises(methods[k], content) THEN One
    ELSE LET applied == RunStrategy(methods[k], content)
         IN  RatMul(applied[2], ProductOfFactors(applied[1], methods, k + 1))

\* C18: the preservation_score of every returned result is the product, in
\* application order, of the factors measured by exactly the strategies its
\* method_used lists, and 1.0 when method_used is empty.
C18_ScoreIsProductOfListed ==
    \A k \in 1..Len(returned) :
        returned[k].result.preservation_score
            = ProductOfFactors(returned[k].call.content,
                               returned[k].result.method_used, 1)


(***************************************************************************)
(* C19: compress_content terminates                                        *)
(***************************************************************************)
\* the pipeline loop is left because the strategies are exhausted or the
\* elapsed time reached max_time (at the loop head), or because the target
\* was reached (after a strategy)
TerminalStep ==
    (pc # "finish" /\ pc' = "finish")
        => \/ /\ pc = "loop"
              /\ \/ strategy_index > Len(selected_strategies)
                 \/ TimedeltaSeconds(now - start_time) >= args.max_time
           \/ /\ pc = "target"
              /\ TargetReached(Len(compressed_content), original_size,
                               args.target_reduction)
\* a strategy is attempted from the loop head only, at a position of the
\* selection, and the position moves on by one after every attempt
AttemptedOnce ==
    /\ (pc # "call" /\ pc' = "call")
          => (pc = "loop" /\ strategy_index \in 1..Len(selected_strategies))
    /\ (pc \in TryBody /\ pc' = "loop") => strategy_index' = strategy_index + 1
    /\ (pc \notin TryBody /\ pc # "entry") => strategy_index' = strategy_index
\* compress_content has returned a CompressionResult to its caller
Returned == pc \in {"output", "idle"} /\ Len(result) = 1
\* the TimeoutError of the deadline left compress_content
Cancelled == pc = "except_timeout"

Occurrences(lines, line) ==
    Cardinality({k \in 1..Len(lines) : Strip(lines[k]) = Strip(line)})
IsRepeated(lines, line) == Strip(line) # << >> /\ Occurrences(lines, line) > 2
\* the position of the first occurrence of the stripped line
FirstOccurrence(lines, line) ==
    CHOOSE k \in 1..Len(lines) :
        /\ Strip(lines[k]) = Strip(line)
        /\ \A j \in 1..(k - 1) : Strip(lines[j]) # Strip(line)
\* the number of the reference: repeated lines are numbered from 1 in the
\* order of their first occurrences
ReferenceNumber(lines, line) ==
    Cardinality({k \in 1..FirstOccurrence(lines, line) :
                    /\ IsRepeated(lines, lines[k])
                    /\ FirstOccurrence(lines, lines[k]) = k})
Indentation(line) == Take(line, Len(line) - Len(LStrip(line)))
\* the line the specification states for position k
StatedLine(lines, k) ==
    IF ~IsRepeated(lines, lines[k]) THEN lines[k]
    ELSE IF FirstOccurrence(lines, lines[k]) = k
    THEN RefTag(ReferenceNumber(lines, lines[k])) \o <<":", " ">> \o lines[k]
    ELSE Indentation(lines[k]) \o RefTag(ReferenceNumber(lines, lines[k]))
StatedReferences(content) ==
    LET lines == SplitLines(content)
    IN  Join([k \in 1..Len(lines) |-> StatedLine(lines, k)], <<"\n">>)

HasRepeatedLine(content) ==
    \E k \in 1..Len(SplitLines(content)) :
        IsRepeated(SplitLines(content), SplitLines(content)[k])

\* C20: applied to a text in which some line occurs more than twice,
\* redundancy_elimination returns the lines of its input, in number and
\* order, with every line that occurs more than twice (stripped, non-empty)
\* replaced at its first occurrence by '[REF_n]: <line>' and at the later ones
\* by '[REF_n]' behind the line's indentation, n counting the repeated lines
\* from 1 in order of first occurrence, and every other line unchanged.
C20_ReferencesAsStated ==
    [][(Applies("redundancy_elimination") /\ HasRepeatedLine(compressed_content))
          => compressed_content' = StatedReferences(compressed_content)]_vars


(***************************************************************************)
(* C21: the blocks context_deduplication keeps                             *)
(***************************************************************************)
\* the stripped blocks of a content, empty ones included
StrippedBlocks(content) ==
    LET blocks == SplitBlocks(content, 1, 1)
    IN  [k \in 1..Len(blocks) |-> Strip(blocks[k])]
\* |intersection| / |union| of the word sets is at most 0.8; the similarity
\* is 0 when either set is empty
SimilarityAtMostThreshold(block1, block2) ==
    \/ WordSet(block1) = {} \/ WordSet(block2) = {}
    \/ 10 * Cardinality(WordSet(block1) \cap WordSet(block2))
          <= 8 * Cardinality(WordSet(block1) \cup WordSet(block2))
\* block k is kept: it is not empty and is within the threshold of every
\* kept block before it
RECURSIVE IsKept(_, _)
IsKept(blocks, k) ==
    /\ blocks[k] # << >>
    /\ \A j \in 1..(k - 1) :
          IsKept(blocks, j) => SimilarityAtMostThreshold(blocks[k], blocks[j])
\* the kept blocks from position k on, in their order
RECURSIVE KeptFrom(_, _)
KeptFrom(blocks, k) ==
    IF k > Len(blocks) THEN << >>
    ELSE (IF IsKept(blocks, k) THEN <<blocks[k]>> ELSE << >>) \o KeptFrom(blocks, k + 1)

\* C21: context_deduplication returns, joined by blank lines and in their
\* original order, exactly the blocks whose word-set similarity to every
\* block kept before them is at most 0.8 (a block at exactly 0.8 is kept);
\* the first non-empty block is among them and any two of them are within
\* the threshold of each other.
C21_KeptBlocks ==
    [][Applies("context_deduplication") =>
          LET blocks == StrippedBlocks(compressed_content)
              kept == KeptFrom(blocks, 1)
          IN  /\ compressed_content' = Join(kept, <<"\n", "\n">>)
              /\ (\E k \in 1..Len(blocks) : blocks[k] # << >>)
                    => (kept # << >> /\ kept[1] =
                          blocks[CHOOSE k \in 1..Len(blocks) :
                                    /\ blocks[k] # << >>
                                    /\ \A j \in 1..(k - 1) : blocks[j] = << >>])
              /\ \A i \in 1..Len(kept), j \in 1..Len(kept) :
                    i # j => SimilarityAtMostThreshold(kept[i], kept[j])]_vars
\* the second block of the text at the threshold was kept
C21_Witness ==
    /\ driver = "strategy"
    /\ args.content = BlocksAtThreshold
    /\ method_used = <<"context_deduplication">>
    /\ compressed_content = BlocksAtThreshold


(***************************************************************************)
(* C22: the preservation factor of context_deduplication                   *)
(***************************************************************************)
\* min(0.99, kept / original), and 1.0 for a content without blocks
StatedDeduplicationFactor(content) ==
    LET blocks == StrippedBlocks(content)
        kept == KeptFrom(blocks, 1)
    IN  IF \A k \in 1..Len(blocks) : blocks[k] = << >> THEN One
        ELSE RatMin(Rat(99, 100), Rat(Len(kept), Len(blocks)))

\* C22: the preservation factor context_deduplication returns is
\* min(0.99, kept blocks / blocks of the content), and 1.0 when the content
\* has no block (it is empty or holds only whitespace).
C22_DeduplicationFactor ==
    [][Applies("context_deduplication")
          => preservation' = StatedDeduplicationFactor(compressed_content)]_vars


(***************************************************************************)
(* C23: the lines semantic_condensation leaves alone                       *)
(***************************************************************************)
\* the line starts, after leading whitespace, with '*', '-' or a numbered-list
\* marker: digits and a full stop
IsStatedListItem(line) ==
    LET t == Strip(line)
    IN  \/ MatchAt(t, 1, <<"*">>) \/ MatchAt(t, 1, <<"-">>)
        \/ \E n \in 1..(Len(t) - 1) :
              /\ \A m \in 1..n : IsDigit(t[m])
              /\ t[n + 1] = "."

\* C23: semantic_condensation leaves every list item ('*', '-' or a
\* numbered-list marker after leading whitespace) and every line that matches
\* a preserve pattern as the phrase substitutions left it: with its filler
\* words and its spacing.
C23_ListItemsKeepFillers ==
    [][Applies("semantic_condensation") =>
          LET lines == SplitLines(ApplySubstitutions(compressed_content,
                                                     condensation_patterns, 1))
              out == SplitLines(compressed_content')
          IN  /\ Len(out) = Len(lines)
              /\ \A k \in 1..Len(lines) :
                    (IsStatedListItem(lines[k]) \/ IsTechnical(lines[k]))
                        => out[k] = lines[k]]_vars

\* the whole text of every match of line 285's pattern: the function-like
\* bodies of the text
FunctionBodies(content) == TextsOf(FuncMatches(content, 1))

\* the blocks the statement has abstracted, each with its token
StatedAbstractions(content) ==
    LargePatterns(FunctionBodies(content), 1, large_function, <<"F", "U", "N", "C">>)
    \o LargePatterns(json_patterns(content), 1, large_json, <<"J", "S", "O", "N">>)

\* the stated result: every such block replaced by its token and one
\* dictionary entry per token appended; the content itself when there is none
StatedAbstraction(content) ==
    AbstractedWith(content, StatedAbstractions(content))

\* C24: pattern_abstraction returns its input with every function-like body
\* longer than 200 characters and every brace block longer than 300
\* characters replaced by its token [FUNC_i] or [JSON_i], followed by a
\* dictionary section with one entry per token; a text with no such block is
\* returned unchanged, with no dictionary section.
C24_LargeBlocksAbstracted ==
    [][(driver = "abstraction" /\ Len(method_used') = 1)
          => compressed_content' = StatedAbstraction(compressed_content)]_vars

(***************************************************************************)
(* analyze_content called by a library caller on an engine in use          *)
(***************************************************************************)
\* four spaces: the redundancy score alone is above the cap
SpaceRunText == <<" ", " ", " ", " ">>
\* a line of 21 characters three times: a repetitive_line section
LongLine == Filler("l", substantial_line + 1)
RepetitiveText == Join(<<LongLine, LongLine, LongLine>>, <<"\n">>)
\* a fenced block of n characters
FencedText(n) == Fence \o Filler("-", n - 6) \o Fence

AnalysisInputs ==
    {<< >>, <<"a">>, SpaceRunText, RepetitiveText, RepeatedLines, FillerProse,
     FencedText(large_code_block), FencedText(large_code_block + 1)}

\* the cache of an engine that has served one compress_content call
StoredCall == LibCall(FillerProse, Rat(1, 4), 1, FALSE)
StoredCache ==
    CacheInsert(<< >>, CacheKey(StoredCall.content, StoredCall.target_reduction,
                                StoredCall.aggressive_mode),
                UndisturbedResult(StoredCall))

AnalysisInit ==
    /\ driver = "analysis"
    /\ args = [action |-> "analyze", content |-> << >>]
    /\ pc = "idle"
    /\ now = 0
    /\ alarm = NoAlarm
    /\ compression_cache \in {<< >>, StoredCache}
    /\ start_time = 0
    /\ selected_strategies = << >>
    /\ strategy_index = 1
    /\ compressed_content = << >>
    /\ preservation = One
    /\ overall_preservation = One
    /\ method_used = << >>
    /\ result = << >>
    /\ stdout = << >>
    /\ stderr = << >>
    /\ exit_code = Running
    /\ handled = << >>
    /\ async_raised = << >>
    /\ pipeline_runs = << >>
    /\ returned = << >>
    /\ calls_made = 0

\* analysis = compressor.analyze_content(content): the method assigns to no
\* attribute of self
AnalyzeContent(content) ==
    /\ driver = "analysis"
    /\ pc = "idle"
    /\ calls_made < MaxApplications
    /\ args' = [action |-> "analyze", content |-> content]
    /\ returned' = Append(returned, [call |-> args', analysis |-> analyze_content(content)])
    /\ calls_made' = calls_made + 1
    /\ UNCHANGED <<driver, pc, now, alarm, engine, frame, outputs, handled, async_raised,
                   pipeline_runs>>

AnalysisNext == \E content \in AnalysisInputs : AnalyzeContent(content)
AnalysisSpec == AnalysisInit /\ [][AnalysisNext]_vars

\* the analysis the step returns
AnalysisReturned == returned'[Len(returned')].analysis
AnalysisStep == driver = "analysis" /\ calls_made' = calls_made + 1

\* C25: a call of analyze_content returns an analysis and raises nothing,
\* leaves the engine's cache as it was, returns total_tokens = 0,
\* semantic_density = 0 and optimization_potential = 0 for the empty string,
\* and for every input an optimization_potential between 0 and 0.5.
C25_AnalysisIsPure ==
    [][AnalysisStep =>
          /\ Len(returned') = Len(returned) + 1
          /\ handled' = handled /\ async_raised' = async_raised
          /\ compression_cache' = compression_cache
          /\ args'.content = << >> =>
                 /\ AnalysisReturned.total_tokens = 0
                 /\ AnalysisReturned.semantic_density = Zero
                 /\ AnalysisReturned.optimization_potential = Zero
          /\ RatLE(Zero, AnalysisReturned.optimization_potential)
          /\ RatLE(AnalysisReturned.optimization_potential, Rat(1, 2))]_vars

\* on an engine with a stored result, the empty string has been analysed and
\* then a text whose scores add up to more than the cap
C25_Witness ==
    /\ driver = "analysis"
    /\ compression_cache = StoredCache
    /\ Len(returned) = 2
    /\ returned[1].call.content = << >>
    /\ returned[1].analysis.optimization_potential = Zero
    /\ returned[2].call.content = SpaceRunText
    /\ returned[2].analysis.optimization_potential = Rat(1, 2)
    /\ RatLT(Rat(1, 2), UncappedPotential(SpaceRunText))

\* the configuration of the pipeline run before this one
PreviousRun == pipeline_runs[Len(pipeline_runs)]
\* the step starts a pipeline run on another content than the run before,
\* with the same target_reduction and aggressive_mode
SameConfigurationOtherContent ==
    /\ driver = "engine"
    /\ pc = "entry" /\ pc' = "loop"
    /\ pipeline_runs # << >>
    /\ PreviousRun[1] # md5(args.content)
    /\ PreviousRun[2] = args.target_reduction
    /\ PreviousRun[3] = args.aggressive_mode

\* C26: a run of the pipeline on a content other than that of the run before
\* it, with the same target_reduction and aggressive_mode, selects the same
\* ordered list of strategies as the run before it: the list is a function
\* of target_reduction and aggressive_mode, whatever the analysis says.
C26_SelectionIgnoresContent ==
    [][SameConfigurationOtherContent => selected_strategies' = selected_strategies]_vars

\* two runs with the same target and mode on contents with different
\* analyses have selected the same two strategies
C26_Witness ==
    /\ driver = "engine"
    /\ pc = "loop"
    /\ Len(pipeline_runs) = 2
    /\ pipeline_runs[1] = CacheKey(RepeatedLines, Rat(1, 8), FALSE)
    /\ pipeline_runs[2] = CacheKey(FillerProse, Rat(1, 8), FALSE)
    /\ analyze_content(RepeatedLines) # analyze_content(FillerProse)
    /\ selected_strategies = <<"whitespace_optimization", "redundancy_elimination">>

\* C27: no step of a single caller's calls on one engine removes a key from
\* the cache or changes the result stored under a key: the set of keys only
\* grows and a stored result stays as it was inserted.
C27_CacheOnlyGrows ==
    [][driver = "engine" =>
          /\ DOMAIN compression_cache \subseteq DOMAIN compression_cache'
          /\ \A key \in DOMAIN compression_cache :
                 compression_cache'[key] = compression_cache[key]]_vars

\* the cache holds the results of two pipeline runs, and a later call with the
\* key of the first run was answered from the cache with the result the first
\* run had returned
C27_Witness ==
    /\ driver = "engine"
    /\ pc = "idle"
    /\ Cardinality(DOMAIN compression_cache) = 2
    /\ Len(returned) = 3
    /\ ~returned[1].hit /\ ~returned[2].hit /\ returned[3].hit
    /\ KeyOf(returned[3].call) = KeyOf(returned[1].call)
    /\ compression_cache[KeyOf(returned[1].call)] = returned[1].result

(***************************************************************************)
(* Two callers in compress_content on one engine at the same time          *)
(***************************************************************************)
\* the threads that call compress_content on the shared engine
Callers == {1, 2}
\* both callers pass the same content and configuration; max_time is the
\* default of 30 seconds, which the clock does not reach
ThreadCalls ==
    {LibCall(RepeatedLines, Rat(1, 8), 30, FALSE),
     LibCall(FillerProse, Rat(1, 4), 30, FALSE),
     LibCall(Commented, Rat(1, 4), 30, TRUE)}

\* pc, start_time, compressed_content, overall_preservation and method_used
\* are local to a call: here each holds one value per caller
ThreadInit ==
    /\ driver = "threads"
    /\ args \in ThreadCalls
    /\ pc = [c \in Callers |-> "entry"]
    /\ now = 0
    /\ alarm = NoAlarm
    /\ compression_cache = << >>
    /\ start_time = [c \in Callers |-> 0]
    /\ selected_strategies = << >>
    /\ strategy_index = 1
    /\ compressed_content = [c \in Callers |-> << >>]
    /\ preservation = One
    /\ overall_preservation = [c \in Callers |-> One]
    /\ method_used = [c \in Callers |-> << >>]
    /\ result = << >>
    /\ stdout = << >>
    /\ stderr = << >>
    /\ exit_code = Running
    /\ handled = << >>
    /\ async_raised = << >>
    /\ pipeline_runs = << >>
    /\ returned = << >>
    /\ calls_made = 0

\* lines 410-421 in caller c: start_time and the cache check, which returns
\* the stored result on a hit
ThreadEntry(c) ==
    /\ driver = "threads"
    /\ pc[c] = "entry"
    /\ start_time' = [start_time EXCEPT ![c] = now]
    /\ IF cache_key \in DOMAIN compression_cache
       THEN /\ returned' = Append(returned, [call |-> args, caller |-> c, hit |-> TRUE,
                                             result |-> compression_cache[cache_key]])
            /\ pc' = [pc EXCEPT ![c] = "done"]
            /\ UNCHANGED pipeline_runs
       ELSE /\ pipeline_runs' = Append(pipeline_runs, cache_key)
            /\ pc' = [pc EXCEPT ![c] = "pipeline"]
            /\ UNCHANGED returned
    /\ UNCHANGED <<driver, args, now, alarm, engine, selected_strategies, strategy_index,
                   compressed_content, preservation, overall_preservation, method_used,
                   outputs, handled, async_raised, calls_made>>

\* lines 423-479 in caller c: the analysis, the selection and the loop over
\* the strategies touch the locals of the call only
ThreadPipeline(c) ==
    /\ driver = "threads"
    /\ pc[c] = "pipeline"
    /\ LET run == PipelineFrom(SelectStrategies(args.target_reduction, args.aggressive_mode),
                               1, args.content, Len(args.content), args.target_reduction,
                               One, << >>)
       IN  /\ compressed_content' = [compressed_content EXCEPT ![c] = run[1]]
           /\ overall_preservation' = [overall_preservation EXCEPT ![c] = run[2]]
           /\ method_used' = [method_used EXCEPT ![c] = run[3]]
    /\ pc' = [pc EXCEPT ![c] = "finish"]
    /\ UNCHANGED <<driver, args, now, alarm, engine, start_time, selected_strategies,
                   strategy_index, preservation, outputs, history>>

\* an insert under a key of the caller's own
ThreadFinishKeyedByCaller(c) ==
    /\ driver = "threads"
    /\ pc[c] = "finish"
    /\ LET r == CompressionResult(args.content, compressed_content[c],
                                  overall_preservation[c], method_used[c],
                                  now - start_time[c])
       IN  /\ compression_cache' = CacheInsert(compression_cache, <<cache_key, c>>, r)
           /\ returned' = Append(returned, [call |-> args, caller |-> c, hit |-> FALSE,
                                             result |-> r])
    /\ pc' = [pc EXCEPT ![c] = "done"]
    /\ UNCHANGED <<driver, args, now, alarm, frame, outputs, handled, async_raised,
                   pipeline_runs, calls_made>>

\* lines 481-504 in caller c: the result, the cache insert and the return
ThreadFinish(c) ==
    /\ driver = "threads"
    /\ pc[c] = "finish"
    /\ LET r == CompressionResult(args.content, compressed_content[c],
                                  overall_preservation[c], method_used[c],
                                  now - start_time[c])
       IN  /\ compression_cache' = CacheInsert(compression_cache, cache_key, r)
           /\ returned' = Append(returned, [call |-> args, caller |-> c, hit |-> FALSE,
                                             result |-> r])
    /\ pc' = [pc EXCEPT ![c] = "done"]
    /\ UNCHANGED <<driver, args, now, alarm, frame, outputs, handled, async_raised,
                   pipeline_runs, calls_made>>

\* a second passes while a call is under way
ThreadTick ==
    /\ driver = "threads"
    /\ \E c \in Callers : pc[c] # "done"
    /\ now < MaxClock
    /\ now' = now + 1
    /\ UNCHANGED <<driver, args, pc, alarm, engine, frame, outputs, history>>

ThreadNext ==
    \/ \E c \in Callers : ThreadEntry(c) \/ ThreadPipeline(c) \/ ThreadFinish(c)
    \/ ThreadTick

ThreadSpec == ThreadInit /\ [][ThreadNext]_vars

\* both callers have returned
BothReturned == driver = "threads" /\ \A c \in Callers : pc[c] = "done"

\* C28: nothing keeps the second caller's cache check from running between
\* the first caller's check and insert, and whichever way two concurrent
\* calls with the same content and configuration interleave, once both have
\* returned the cache holds one entry, under their common key, which is a
\* result one of them computed.
C28_SingleEntryAfterRace ==
    BothReturned =>
        /\ DOMAIN compression_cache = {cache_key}
        /\ Len(returned) = 2
        /\ Len(pipeline_runs) \in {1, 2}
        /\ \E k \in 1..Len(returned) :
               ~returned[k].hit /\ returned[k].result = compression_cache[cache_key]

\* both callers saw a miss, both ran the pipeline and returned results that
\* differ in their processing time; the cache holds the later one only
C28_Witness ==
    /\ BothReturned
    /\ pipeline_runs = <<cache_key, cache_key>>
    /\ ~returned[1].hit /\ ~returned[2].hit
    /\ returned[1].result # returned[2].result
    /\ DOMAIN compression_cache = {cache_key}
    /\ compression_cache[cache_key] = returned[2].result

\* the k-th call ran the pipeline and the elapsed-time check ended it before
\* the strategies an undisturbed run applies were applied
Truncated(k) ==
    /\ ~returned[k].hit
    /\ Len(returned[k].result.method_used)
          < Len(UndisturbedResult(returned[k].call).method_used)
\* in the k-th call a strategy was skipped after an exception
Skipped(k) == \E i \in 1..Len(handled) : handled[i].call = k
\* the call about to start has the key of the k-th call, whose pipeline was
\* cut short or skipped a strategy, and a larger max_time
RepeatsWithMoreTime(k) ==
    /\ KeyOf(returned[k].call) = KeyOf(args)
    /\ returned[k].call.max_time < args.max_time
    /\ Truncated(k) \/ Skipped(k)

\* C29: the result of a pipeline run is stored under the key of content,
\* target_reduction and aggressive_mode however the run ended, and a call
\* with that key and a larger max_time than a call whose pipeline was cut
\* short by the elapsed-time check, or skipped a strategy after an exception,
\* returns that call's result from the cache: no pipeline run starts and no
\* strategy is applied.
C29_IncompleteResultReused ==
    [][/\ (driver = "engine" /\ pc = "finish" /\ pc' # pc)
            => /\ cache_key \in DOMAIN compression_cache'
               /\ compression_cache'[cache_key] = returned'[Len(returned')].result
       /\ \A k \in 1..Len(returned) :
            (driver = "engine" /\ pc = "entry" /\ pc' # pc /\ RepeatsWithMoreTime(k))
               => /\ pc' = "idle"
                  /\ returned'[Len(returned')].hit
                  /\ returned'[Len(returned')].result = returned[k].result
                  /\ pipeline_runs' = pipeline_runs
                  /\ method_used' = method_used /\ handled' = handled]_vars

\* the first call was cut short before any strategy, the second call, with
\* its key and twice the time, got its result back, and the third call
\* skipped a strategy and was stored as well
C29_Witness ==
    /\ driver = "engine"
    /\ pc = "idle"
    /\ Len(returned) = 3
    /\ Truncated(1)
    /\ returned[1].result.method_used = << >>
    /\ returned[2].hit
    /\ returned[2].call.max_time > returned[1].call.max_time
    /\ returned[2].result = returned[1].result
    /\ Skipped(3)
    /\ compression_cache[KeyOf(returned[3].call)] = returned[3].result
    /\ Len(pipeline_runs) = 2

(***************************************************************************)
(* A compress run of main under each setting of the deadline               *)
(***************************************************************************)
\* --max-time with AWOC_ML_TIMEOUT: the default of 60, an override below
\* max_time, and an override of 0
DeadlineGovernors ==
    {[max_time |-> 0, env_timeout |-> 60, preservation_threshold |-> Rat(98, 100)],
     [max_time |-> 1, env_timeout |-> 60, preservation_threshold |-> Rat(98, 100)],
     [max_time |-> 2, env_timeout |-> 1,  preservation_threshold |-> Rat(98, 100)],
     [max_time |-> 1, env_timeout |-> 0,  preservation_threshold |-> Rat(98, 100)]}

DeadlineArgs ==
    {[action |-> "compress", content |-> c, target_reduction |-> t,
      max_time |-> g.max_time, aggressive_mode |-> m,
      preservation_threshold |-> g.preservation_threshold,
      env_timeout |-> g.env_timeout] :
        c \in {RepeatedLines, FillerProse}, t \in {Rat(1, 8), Rat(1, 2)},
        m \in BOOLEAN, g \in DeadlineGovernors}

DeadlineInit ==
    /\ driver = "cli"
    /\ args \in DeadlineArgs
    /\ pc = "arm"
    /\ now = 0
    /\ alarm = NoAlarm
    /\ compression_cache = << >>
    /\ start_time = 0
    /\ selected_strategies = << >>
    /\ strategy_index = 1
    /\ compressed_content = << >>
    /\ preservation = One
    /\ overall_preservation = One
    /\ method_used = << >>
    /\ result = << >>
    /\ stdout = << >>
    /\ stderr = << >>
    /\ exit_code = Running
    /\ handled = << >>
    /\ async_raised = << >>
    /\ pipeline_runs = << >>
    /\ returned = << >>
    /\ calls_made = 0

DeadlineNext ==
    \/ Arm \/ Construct \/ Read \/ ReadFails \/ Output \/ Except \/ Finally
    \/ Entry \/ LoopHead \/ StrategyCall \/ Score \/ AppendMethod \/ TargetCheck \/ Finish
    \/ AlarmFires \/ Tick

DeadlineSpec == DeadlineInit /\ [][DeadlineNext]_vars

\* the step is the elapsed-time check of line 451 ending the loop with
\* strategies left
TruncatingExit ==
    /\ driver = "cli"
    /\ pc = "loop" /\ pc' = "finish"
    /\ strategy_index <= Len(selected_strategies)
\* the except clause of the loop has caught a TimeoutError
TimeoutAbsorbed ==
    \E k \in 1..Len(handled) : handled[k].exception = "TimeoutError"

\* C30: in a compress run of main with max_time >= 1 the elapsed-time check
\* ends the loop only after the alarm has gone off and its TimeoutError was
\* caught by the except clause of the loop: the alarm, armed before the
\* pipeline starts for at most max_time seconds, is due by the time the check
\* can succeed.
C30_TruncationAfterDeadline ==
    [][(TruncatingExit /\ args.max_time >= 1) => TimeoutAbsorbed]_vars

====
